---- MODULE Spec2Model ----
(***************************************************************************)
(* Zubix Pod backend: the notification fan-out helper with its triggering  *)
(* request (POST /:podId/join), the push-subscription routes, the room     *)
(* join-request workflow and the pod-member flag routes.                   *)
(*                                                                         *)
(* Every awaited database or push call of a handler is one step of that    *)
(* handler; handlers of different requests interleave at those steps.      *)
(***************************************************************************)
EXTENDS Integers, Sequences, FiniteSets, TLC

\* ---------------------------------------------------------------- bounds
MaxSubs == 2      \* push subscriptions ever created
MaxNotifs == 2    \* notification rows ever created

\* ------------------------------------------------------------- the world
Users == {"o1", "alice"}
Pods == {"p1"}
Subscribers == {"o1", "alice"}
\* the devices each subscriber registers: "e2" changes hands
DevicesOf(u) == IF u = "o1" THEN {"e1", "e2"} ELSE {"e2"}
ReqIds == {1, 2}     \* two join-pod requests may be in flight at once

\* pods.ownerId, set when the pod is created and never changed
PodOwner(p) == IF p = "p1" THEN "o1" ELSE "o2"

\* what webpush.sendNotification answers: delivered, or an error statusCode
PushCodes == {201, 404, 410, 500}

\* the push provider says the endpoint is gone for good
ReportsGone(code) == code \in {404, 410}

VARIABLES
  podMembers,      \* pod_members rows: [podId, userId, isCoOwner, isTeamMember]
  notifications,   \* notifications rows: [id, userId, type, actor, linkedId, isRead]
  notifSeq,        \* ids handed out to notification rows so far
  subscriptions,   \* push_subscriptions rows: [id, userId, endpoint]
  subSeq,          \* ids handed out to push subscription rows so far
  ioUp,            \* ioInstance is set (the socket server was initialised)
  emits,           \* 'notification' events emitted: [channel, notifId]
  jreq,            \* the join-pod requests: position, locals and answer of each
  roomMembers,     \* room_members rows, counted per <<roomId, userId>>
  joinRequests,    \* room_join_requests rows: [id, roomId, userId, status]
  reqSeq,          \* ids handed out to join request rows so far
  rjreq,           \* POST /:roomId/join-request in flight: position and locals
  dreq,            \* PUT /:roomId/join-requests/:requestId in flight: position and locals
  last,            \* the answer sent last by a room, pod-member, chat or message route
  body,            \* what that answer carried: a chat id, or a page of message ids
  chats,           \* chats rows with their chat_participants: [id, participants]
  chatSeq,         \* ids handed out to chats so far
  creq,            \* POST /get-or-create in flight: position and locals
  messages,        \* messages rows: [id, container, senderId, createdAt]
  msgSeq,          \* ids handed out to messages so far
  clock,           \* the database clock, in milliseconds
  lreq,            \* GET /:roomId/messages, GET /:chatId/messages in flight
  sreq,            \* POST /:chatId/messages in flight
  xreq,            \* DELETE /messages/:messageId in flight
  groups,          \* the socket layer's room groups: the users admitted to each
  delivered,       \* 'new message' events the socket layer sent: [to, msgId]
  errorEvents,     \* 'error' events the socket layer sent: [to, roomId]
  markreq,         \* PATCH /:notificationId/read in flight: position and locals
  delreq,          \* DELETE /:notificationId in flight: position and locals
  walk,            \* a client paging back through a chat: pages got so far, next cursor
  coOwners,        \* _PodCoOwners rows (the relation Pod.coOwners): [podId, userId]
  pitches,         \* pitches rows by id: [podId, founderId, status]
  replies          \* pitch_replies rows in creation order: [pitchId, authorId]

notifyVars == <<notifications, notifSeq, subscriptions, subSeq, ioUp, emits, jreq>>
roomVars == <<roomMembers, joinRequests, reqSeq, rjreq, dreq, last>>
chatVars == <<body, chats, chatSeq, creq>>
msgVars == <<messages, msgSeq, clock, lreq, sreq, xreq>>
socketVars == <<groups, delivered, errorEvents>>
inboxVars == <<markreq, delreq>>
pitchVars == <<coOwners, pitches, replies>>
vars == <<podMembers, notifications, notifSeq, subscriptions, subSeq, ioUp, emits, jreq,
          roomMembers, joinRequests, reqSeq, rjreq, dreq, last,
          body, chats, chatSeq, creq, messages, msgSeq, clock, lreq, sreq, xreq,
          groups, delivered, errorEvents, markreq, delreq, walk,
          coOwners, pitches, replies>>

\* ------------------------------------------------------------ operators

PodMemberRow(p, u) == [podId |-> p, userId |-> u, isCoOwner |-> FALSE, isTeamMember |-> FALSE]

IsPodMember(p, u) == \E m \in podMembers : m.podId = p /\ m.userId = u

\* prisma.notification.create({data: {..., isRead: false}})
NewNotificationUnread(id, params) ==
  [id |-> id, userId |-> params.userId, type |-> params.type,
   actor |-> params.actor, linkedId |-> params.linkedId, isRead |-> FALSE]

NewNotificationRead(id, params) ==
  [id |-> id, userId |-> params.userId, type |-> params.type,
   actor |-> params.actor, linkedId |-> params.linkedId, isRead |-> TRUE]

NewNotification(id, params) == NewNotificationUnread(id, params)

\* the parameters POST /:podId/join hands to the helper
JoinParams(p, u) ==
  [userId |-> PodOwner(p), type |-> "pod_join", actor |-> u, linkedId |-> p]

\* prisma.pushSubscription.findMany({where: {userId}})
SubsOf(u) == {s \in subscriptions : s.userId = u}
SubIdsOf(u) == {s.id : s \in SubsOf(u)}
AllSubIds == {s.id : s \in subscriptions}

\* GET /subscriptions
ListSubscriptions(u) == {[id |-> s.id, endpoint |-> s.endpoint] : s \in SubsOf(u)}

\* error.statusCode === 410 || error.statusCode === 404
IsGoneOnly410(code) == code = 410

IsGone(code) == code = 410 \/ code = 404

NoTasks == [s \in {} |-> 0]

IdleReq ==
  [pc |-> "idle", user |-> "o1", pod |-> "p1", tasks |-> NoTasks,
   status |-> 0, thrown |-> "none"]

InFlight == {r \in ReqIds : jreq[r].pc \notin {"idle", "done"}}

\* res.status(status).json(...): the handler is over, its locals are gone;
\* `thrown` names the call whose error the route's catch got
Respond(status, thrown) ==
  [IdleReq EXCEPT !.pc = "done", !.status = status, !.thrown = thrown]

\* notification.create rejects: the helper's catch rethrows, the route's catch answers 500
CreateFailedSwallowed(rq) == [rq EXCEPT !.pc = "push_list"]

CreateFailed(rq) == Respond(500, "create")

\* the emit throws inside the helper's try: rethrown likewise
EmitFailed(rq) == Respond(500, "emit")

\* one subscription's send: `gone` is what the provider said, `attempts` counts the
\* webpush.sendNotification calls, `delErr` is a rejected pushSubscription.delete
NewTask == [st |-> "sending", gone |-> FALSE, attempts |-> 1, delErr |-> FALSE]

\* subscriptions.map(async (sub) => ...): every send is started at once
StartSends(rq, ids) == [rq EXCEPT !.pc = "pushing", !.tasks = [s \in ids |-> NewTask]]

\* one subscription's send has settled with `code`
SendSettledRetry(t, code) ==
  IF code = 201 THEN [t EXCEPT !.st = "settled"]
  ELSE IF t.attempts < 2 THEN [t EXCEPT !.attempts = @ + 1]
  ELSE [t EXCEPT !.st = "settled", !.gone = ReportsGone(code)]

SendSettled(t, code) ==
  IF code = 201 THEN [t EXCEPT !.st = "settled"]
  ELSE IF IsGone(code) THEN [t EXCEPT !.st = "deleting", !.gone = ReportsGone(code)]
  ELSE [t EXCEPT !.st = "settled", !.gone = ReportsGone(code)]

\* the delete inside the catch has settled; a rejection ends in Promise.allSettled
DeleteSettled(t, failed) == [t EXCEPT !.st = "settled", !.delErr = failed]

AllSettled(tasks) == \A s \in DOMAIN tasks : tasks[s].st = "settled"

\* ------------------------------------------- rooms and pod-member flags

\* everyone who calls a room or pod-member route
Callers == {"o1", "o2", "alice"}
AllPods == {"p1", "p2"}
\* users.role, read by authMiddleware into req.user
Role(u) == IF u \in {"o1", "o2"} THEN "pod_owner" ELSE "user"
\* the rooms of pod p1: rooms.privacy is set at creation and never updated
Rooms == {"priv", "pub"}
RoomPod(room) == "p1"
RoomPrivacy(room) == IF room = "priv" THEN "PRIVATE" ELSE "PUBLIC"
\* who asks to join rooms, and whom the owner's routes are aimed at
Requesters == {"alice"}
Targets == {"alice"}
RequestIds == {1, 2}            \* the :requestId a decision may name
StatusInputs == {"ACCEPTED", "REJECTED", "PENDING"}   \* body.status of a decision
JoinSlots == {1, 2}             \* join-request calls in flight at once
DecideSlots == {1, 2}           \* decisions in flight at once
OneAtATime == {1}               \* calls in flight where the flag routes run too
RoomMemberKeys == {<<"priv", "o1">>, <<"priv", "alice">>, <<"pub", "alice">>}

\* isPodOwner middleware: user.role === 'pod_owner' || user.role === 'POD_OWNER'
HasPodOwnerRole(u) == Role(u) = "pod_owner" \/ Role(u) = "POD_OWNER"

MemberRows(p, u) == {m \in podMembers : m.podId = p /\ m.userId = u}
IsCoOwner(p, u) == \E m \in MemberRows(p, u) : m.isCoOwner
IsTeamMember(p, u) == \E m \in MemberRows(p, u) : m.isTeamMember

OwnsPodOrCoOwns(c, p) == PodOwner(p) = c \/ IsCoOwner(p, c)

\* pod.ownerId !== req.user.id is what refuses a caller
OwnsPod(c, p) == PodOwner(p) = c

\* prisma.roomJoinRequest.findUnique by (roomId, userId), and by id
RequestsOf(room, u) == {q \in joinRequests : q.roomId = room /\ q.userId = u}
RequestsById(id) == {q \in joinRequests : q.id = id}
StatusOf(room, u) ==
  IF RequestsOf(room, u) = {} THEN "NONE"
  ELSE (CHOOSE q \in RequestsOf(room, u) : TRUE).status

\* room_join_requests_roomId_userId_key: a second row of the pair is rejected
NoUniqueIndex(room, u) == FALSE

UniqueViolation(room, u) == RequestsOf(room, u) # {}

\* prisma.roomJoinRequest.update({where: {id}, data: {status}})
SetStatus(rows, id, st) == {IF q.id = id THEN [q EXCEPT !.status = st] ELSE q : q \in rows}

\* the resubmission: update({where: {id: existingRequest.id}, data: {status: 'PENDING'}})
ResubmitAsNewRow(rows, id) ==
  rows \cup {[q EXCEPT !.id = id + 1, !.status = "PENDING"] : q \in {x \in rows : x.id = id}}

Resubmit(rows, id) == SetStatus(rows, id, "PENDING")

\* prisma.roomJoinRequest.create({data: {roomId, userId}}): status defaults to PENDING
NewJoinRequest(id, room, u) == [id |-> id, roomId |-> room, userId |-> u, status |-> "PENDING"]

IsRoomMember(room, u) == roomMembers[<<room, u>>] > 0

\* prisma.roomMember.create({data: {roomId, userId}})
NoRoomMember(rm, room, u) == rm

CreateRoomMemberTwice(rm, room, u) == [rm EXCEPT ![<<room, u>>] = @ + 2]

CreateRoomMember(rm, room, u) == [rm EXCEPT ![<<room, u>>] = @ + 1]

\* prisma.roomMember.delete by (roomId, userId)
DeleteRoomMember(rm, room, u) == [rm EXCEPT ![<<room, u>>] = 0]

\* what POST /:roomId/join-request does with the request it found
ExistingRequestBranchReopen(st) ==
  IF st = "NONE" THEN "create" ELSE IF st = "PENDING" THEN "pending" ELSE "resubmit"

ExistingRequestBranchLax(st) ==
  IF st = "NONE" THEN "create" ELSE IF st = "ACCEPTED" THEN "accepted" ELSE "resubmit"

ExistingRequestBranch(st) ==
  IF st = "NONE" THEN "create"
  ELSE IF st = "PENDING" THEN "pending"
  ELSE IF st = "ACCEPTED" THEN "accepted"
  ELSE "resubmit"

\* the checks of PUT /:roomId/join-requests/:requestId before its first write:
\* the status code they answer, 0 when they all pass
DecideCheck(c, room, id, st) ==
  IF ~HasPodOwnerRole(c) THEN 403
  ELSE IF st \notin {"ACCEPTED", "REJECTED"} THEN 400
  ELSE IF ~OwnsPod(c, RoomPod(room)) THEN 403
  ELSE IF RequestsById(id) = {} THEN 404
  ELSE LET q == CHOOSE x \in RequestsById(id) : TRUE IN
       IF q.roomId # room THEN 400
       ELSE IF q.status # "PENDING" THEN 400
       ELSE 0

\* res.status(status).json(...) of a room or pod-member route
Answer(op, c, status) == [op |-> op, caller |-> c, status |-> status]

IdleJoin == [pc |-> "idle", user |-> "alice", roomId |-> "priv", existing |-> 0]
IdleDecide ==
  [pc |-> "idle", caller |-> "o1", roomId |-> "priv", requestId |-> 0,
   status |-> "none", userId |-> "none"]

\* the rooms exist; the owner of the pod was added to its PRIVATE room
RoomInit ==
  /\ roomMembers = [k \in RoomMemberKeys |-> IF k = <<"priv", "o1">> THEN 1 ELSE 0]
  /\ joinRequests = {}
  /\ reqSeq = 0
  /\ rjreq = [k \in JoinSlots |-> IdleJoin]
  /\ dreq = [k \in DecideSlots |-> IdleDecide]
  /\ last = Answer("none", "none", 0)

\* ------------------------------------------------- chats: operators

\* the users rows; a target id outside this set names no user
ExistingUsers == {"o1", "o2", "alice"}
ChatCallers == {"alice", "o1", "o2"}
ChatTargets == {"alice", "o1", "ghost"}
ChatSlots == {1, 2}

\* the order Array.prototype.sort() puts the user ids in
UserRank(u) ==
  CASE u = "alice" -> 1
    [] u = "o1" -> 2
    [] u = "o2" -> 3
    [] OTHER -> 4

\* [a, b].sort()
SortIds(ids) ==
  IF UserRank(ids[1]) <= UserRank(ids[2]) THEN ids ELSE <<ids[2], ids[1]>>

ParticipantsOf(c) == {c.participants[i] : i \in 1..Len(c.participants)}

\* chat.findMany where participants some userId in [currentUserId, targetUserId]
ChatsWithSome(u, t) == {c \in chats : ParticipantsOf(c) \cap {u, t} # {}}

SamePairUnsorted(c, u, t) ==
  /\ Len(c.participants) = 2
  /\ c.participants[1] = u
  /\ c.participants[2] = t

\* the filter for a chat with exactly these two participants
SamePair(c, u, t) ==
  /\ Len(c.participants) = 2
  /\ LET userIds == SortIds(c.participants)
         requestedIds == SortIds(<<u, t>>)
     IN  userIds[1] = requestedIds[1] /\ userIds[2] = requestedIds[2]

\* allChats.find(...): the candidates; find() answers the first in the
\* order findMany gave, which no orderBy fixes
ExistingChats(u, t) == {c \in ChatsWithSome(u, t) : SamePair(c, u, t)}

\* chat.create with participants create [currentUserId, targetUserId]
NewChat(id, u, t) == [id |-> id, participants |-> <<u, t>>]

\* chatParticipant.findUnique where chatId_userId
IsParticipant(chatId, u) ==
  \E c \in chats : c.id = chatId /\ u \in ParticipantsOf(c)

IdleChat == [pc |-> "idle", user |-> "alice", target |-> "o1"]

ChatInit ==
  /\ body = <<>>
  /\ chats = {}
  /\ chatSeq = 0
  /\ creq = [k \in ChatSlots |-> IdleChat]

\* ---------------------------------------------- messages: operators

MaxMessages == 3
MaxClock == 2
\* the limit query parameter, parsed by parseInt
Limits == {1, 2}
MessageIds == 1..MaxMessages
\* null, for roomId, chatId, before and a createdAt filter that is not set
NoRoom == "none"
NoChat == 0
NoMessage == 0
NoTime == -1
ListSlots == {1}
SendSlots == {1}
DeleteSlots == {1}

\* message.create: createdAt DEFAULT CURRENT_TIMESTAMP
NewMessage(id, room, chatId, u, now) ==
  [id |-> id, roomId |-> room, chatId |-> chatId, senderId |-> u, createdAt |-> now]

\* message.findUnique where id
MessagesById(id) == {m \in messages : m.id = id}

AnyoneIsSender(m, u) == TRUE

\* message.senderId !== userId is what refuses a caller
IsSender(m, u) == m.senderId = u

NotNewer(m, t) == m.createdAt <= t

\* createdAt: { lt: beforeMessage.createdAt }
Older(m, t) == m.createdAt < t

\* whereClause: { roomId } or { chatId }, and createdAt once the cursor was found
Matches(m, w) ==
  /\ w.roomId # NoRoom => m.roomId = w.roomId
  /\ w.chatId # NoChat => m.chatId = w.chatId
  /\ w.lt # NoTime => Older(m, w.lt)

WhereClause(r) == [roomId |-> r.roomId, chatId |-> r.chatId, lt |-> r.beforeAt]

\* orderBy createdAt desc: rows of equal createdAt come in any order
DescOrders(rows) ==
  LET n == Cardinality(rows)
  IN  {p \in [1..n -> rows] :
         /\ \A i, j \in 1..n : i # j => p[i] # p[j]
         /\ \A i, j \in 1..n : i < j => p[i].createdAt >= p[j].createdAt}

\* take: parseInt(limit)
Take(p, n) == SubSeq(p, 1, IF n < Len(p) THEN n ELSE Len(p))

NoReverse(p) == p

\* messages.reverse()
Reverse(p) == [i \in 1..Len(p) |-> p[Len(p) + 1 - i]]

IdsOf(p) == [i \in 1..Len(p) |-> p[i].id]

\* message.findMany where, orderBy, take, then res.json of the reversed rows
PagesOf(msgs, w, limit) ==
  {IdsOf(Reverse(Take(p, limit))) : p \in DescOrders({m \in msgs : Matches(m, w)})}

IdleList ==
  [pc |-> "idle", caller |-> "alice", roomId |-> NoRoom, chatId |-> NoChat,
   limit |-> 1, before |-> NoMessage, beforeAt |-> NoTime]
IdleSend == [pc |-> "idle", user |-> "alice", chatId |-> NoChat]
IdleDelete == [pc |-> "idle", user |-> "alice", messageId |-> NoMessage]

MsgInit ==
  /\ messages = {}
  /\ msgSeq = 0
  /\ clock = 0
  /\ lreq = [k \in ListSlots |-> IdleList]
  /\ sreq = [k \in SendSlots |-> IdleSend]
  /\ xreq = [k \in DeleteSlots |-> IdleDelete]

\* ------------------------------------------- socket layer: operators

SocketInit ==
  /\ groups = [room \in Rooms |-> {}]
  /\ delivered = {}
  /\ errorEvents = {}

\* ---------------------------------------- notification routes: operators

InboxSlots == {1}

\* prisma.notification.findUnique where id
NotificationsById(id) == {n \in notifications : n.id = id}

AnyoneOwns(n, u) == TRUE

\* notification.userId !== userId is what refuses a caller
OwnsNotification(n, u) == n.userId = u

\* data: { isRead: true } on the row of that id
MarkRead(rows, id) == {IF n.id = id THEN [n EXCEPT !.isRead = TRUE] ELSE n : n \in rows}

MarkAllOfEveryone(rows, u) == {[n EXCEPT !.isRead = TRUE] : n \in rows}

\* updateMany where { userId, isRead: false } data { isRead: true }
MarkAllOf(rows, u) ==
  {IF n.userId = u /\ ~n.isRead THEN [n EXCEPT !.isRead = TRUE] ELSE n : n \in rows}

IdleInbox == [pc |-> "idle", user |-> "o1", id |-> 0]

\* no walk has begun
IdleWalk == [st |-> "idle", limit |-> 1, cursor |-> NoMessage, seen |-> <<>>, startSeq |-> 0]

InboxInit ==
  /\ markreq = [k \in InboxSlots |-> IdleInbox]
  /\ delreq = [k \in InboxSlots |-> IdleInbox]
  /\ walk = IdleWalk

\* ------------------------------------------------- operators: pitches
MaxReplies == 2                 \* pitch_replies rows the model lets be created
PitchIds == {1}                 \* the pitch the routes are called on, sent to pod p1
NoSuchPitch == 2                \* a :pitchId no row has
PitchStatusInputs == {"VIEWED", "ACCEPTED"}   \* body.status of a status update

\* a pitch as POST / creates it: status defaults to NEW
NewPitch(p, founder) == [podId |-> p, founderId |-> founder, status |-> "NEW"]

\* pod.coOwners.some(co => co.id === user.id): the _PodCoOwners relation
InCoOwners(p, u) == [podId |-> p, userId |-> u] \in coOwners

\* const isOwner = pitch.pod.ownerId === req.user.id;
\* const isCoOwner = pitch.pod.coOwners.some(co => co.id === req.user.id)
MayHandlePitch(c, p) == PodOwner(p) = c \/ InCoOwners(p, c)

PitchInit ==
  /\ coOwners = {}
  /\ pitches = [id \in PitchIds |-> NewPitch("p1", "o2")]
  /\ replies = <<>>

\* ----------------------------------------------------------------- Init

Init ==
  /\ podMembers = {PodMemberRow(p, PodOwner(p)) : p \in Pods}
  /\ notifications = {}
  /\ notifSeq = 0
  /\ subscriptions = {}
  /\ subSeq = 0
  /\ ioUp \in BOOLEAN
  /\ emits = {}
  /\ jreq = [r \in ReqIds |-> IdleReq]
  /\ RoomInit
  /\ ChatInit
  /\ MsgInit
  /\ SocketInit
  /\ InboxInit
  /\ PitchInit

\* -------------------------------------------------- POST /:podId/join

\* the request arrives; pod.findUnique, podMember.findUnique:
\* "Already a member of this pod"
JoinStart(r, u, p) ==
  LET rq == [IdleReq EXCEPT !.user = u, !.pod = p]
      out == IF IsPodMember(p, u)
             THEN Respond(400, "none")
             ELSE [rq EXCEPT !.pc = "create_member"]
  IN
  /\ jreq[r].pc \in {"idle", "done"}
  /\ \A q \in ReqIds : q < r => q \in InFlight
  /\ notifSeq + Cardinality(InFlight) < MaxNotifs
  /\ jreq' = [jreq EXCEPT ![r] = out]
  /\ UNCHANGED <<podMembers, notifications, notifSeq, subscriptions, subSeq, ioUp, emits>>
  /\ UNCHANGED roomVars
  /\ UNCHANGED <<chatVars, msgVars, socketVars, inboxVars, walk, pitchVars>>

\* podMember.create; the unique index on (podId, userId) rejects a second row
JoinCreateMember(r) ==
  LET rq == jreq[r]
      out == IF IsPodMember(rq.pod, rq.user) THEN Respond(500, "member")
             ELSE IF PodOwner(rq.pod) # rq.user THEN [rq EXCEPT !.pc = "notify"]
             ELSE Respond(201, "none")
  IN
  /\ rq.pc = "create_member"
  /\ podMembers' = IF IsPodMember(rq.pod, rq.user) THEN podMembers
                   ELSE podMembers \cup {PodMemberRow(rq.pod, rq.user)}
  /\ jreq' = [jreq EXCEPT ![r] = out]
  /\ UNCHANGED <<notifications, notifSeq, subscriptions, subSeq, ioUp, emits>>
  /\ UNCHANGED roomVars
  /\ UNCHANGED <<chatVars, msgVars, socketVars, inboxVars, walk, pitchVars>>

\* createAndEmitNotification: notification.create, then the socket emit
HelperCreate(r) ==
  LET rq == jreq[r]
      id == notifSeq + 1
      row == NewNotification(id, JoinParams(rq.pod, rq.user))
  IN
  /\ rq.pc = "notify"
  /\ \/ \* the row write fails
        /\ jreq' = [jreq EXCEPT ![r] = CreateFailed(rq)]
        /\ UNCHANGED <<notifications, notifSeq, emits>>
     \/ \* the row is written; no socket server, or the emit goes through
        /\ notifications' = notifications \cup {row}
        /\ notifSeq' = id
        /\ emits' = IF ioUp THEN emits \cup {[channel |-> row.userId, notifId |-> id]}
                            ELSE emits
        /\ jreq' = [jreq EXCEPT ![r] = [rq EXCEPT !.pc = "push_list"]]
     \/ \* the row is written and the emit throws
        /\ ioUp
        /\ notifications' = notifications \cup {row}
        /\ notifSeq' = id
        /\ jreq' = [jreq EXCEPT ![r] = EmitFailed(rq)]
        /\ UNCHANGED emits
  /\ UNCHANGED <<podMembers, subscriptions, subSeq, ioUp>>
  /\ UNCHANGED roomVars
  /\ UNCHANGED <<chatVars, msgVars, socketVars, inboxVars, walk, pitchVars>>

\* sendPushNotification: pushSubscription.findMany, then one send per subscription
PushList(r) ==
  LET rq == jreq[r]
      ids == SubIdsOf(PodOwner(rq.pod))
      out == IF ids = {} THEN Respond(201, "none") ELSE StartSends(rq, ids)
  IN
  /\ rq.pc = "push_list"
  /\ \/ \* findMany fails: caught and logged, the helper returns
        jreq' = [jreq EXCEPT ![r] = Respond(201, "none")]
     \/ jreq' = [jreq EXCEPT ![r] = out]
  /\ UNCHANGED <<podMembers, notifications, notifSeq, subscriptions, subSeq, ioUp, emits>>
  /\ UNCHANGED roomVars
  /\ UNCHANGED <<chatVars, msgVars, socketVars, inboxVars, walk, pitchVars>>

\* webpush.sendNotification settles for one subscription
PushSettle(r, s, code) ==
  LET rq == jreq[r] IN
  /\ rq.pc = "pushing"
  /\ s \in DOMAIN rq.tasks
  /\ rq.tasks[s].st = "sending"
  /\ jreq' = [jreq EXCEPT ![r].tasks[s] = SendSettled(rq.tasks[s], code)]
  /\ UNCHANGED <<podMembers, notifications, notifSeq, subscriptions, subSeq, ioUp, emits>>
  /\ UNCHANGED roomVars
  /\ UNCHANGED <<chatVars, msgVars, socketVars, inboxVars, walk, pitchVars>>

\* pushSubscription.delete({where: {id: sub.id}}) of a subscription reported gone
PushDelete(r, s) ==
  LET rq == jreq[r] IN
  /\ rq.pc = "pushing"
  /\ s \in DOMAIN rq.tasks
  /\ rq.tasks[s].st = "deleting"
  /\ \/ \* the row is there and is deleted
        /\ s \in {x.id : x \in subscriptions}
        /\ subscriptions' = {x \in subscriptions : x.id # s}
        /\ jreq' = [jreq EXCEPT ![r].tasks[s] = DeleteSettled(rq.tasks[s], FALSE)]
     \/ \* the delete fails (the row is gone already, or the write fails)
        /\ UNCHANGED subscriptions
        /\ jreq' = [jreq EXCEPT ![r].tasks[s] = DeleteSettled(rq.tasks[s], TRUE)]
  /\ UNCHANGED <<podMembers, notifications, notifSeq, subSeq, ioUp, emits>>
  /\ UNCHANGED roomVars
  /\ UNCHANGED <<chatVars, msgVars, socketVars, inboxVars, walk, pitchVars>>

\* Promise.allSettled resolves, the helper returns, the route answers 201
JoinRespond(r) ==
  /\ jreq[r].pc = "pushing"
  /\ AllSettled(jreq[r].tasks)
  /\ jreq' = [jreq EXCEPT ![r] = Respond(201, "none")]
  /\ UNCHANGED <<podMembers, notifications, notifSeq, subscriptions, subSeq, ioUp, emits>>
  /\ UNCHANGED roomVars
  /\ UNCHANGED <<chatVars, msgVars, socketVars, inboxVars, walk, pitchVars>>

\* ------------------------------------------------- POST /:podId/leave

LeavePod(u, p) ==
  /\ IsPodMember(p, u)
  /\ podMembers' = {m \in podMembers : ~(m.podId = p /\ m.userId = u)}
  /\ UNCHANGED <<notifications, notifSeq, subscriptions, subSeq, ioUp, emits, jreq>>
  /\ UNCHANGED roomVars
  /\ UNCHANGED <<chatVars, msgVars, socketVars, inboxVars, walk, pitchVars>>

\* ------------------------------------- POST /subscribe, POST /unsubscribe

Subscribe(u, e) ==
  /\ IF \E x \in subscriptions : x.endpoint = e
     THEN /\ subscriptions' = {IF x.endpoint = e THEN [x EXCEPT !.userId = u] ELSE x
                                 : x \in subscriptions}
          /\ subscriptions' # subscriptions
          /\ UNCHANGED subSeq
     ELSE /\ subSeq < MaxSubs
          /\ subscriptions' = subscriptions \cup {[id |-> subSeq + 1, userId |-> u, endpoint |-> e]}
          /\ subSeq' = subSeq + 1
  /\ UNCHANGED <<podMembers, notifications, notifSeq, ioUp, emits, jreq>>
  /\ UNCHANGED roomVars
  /\ UNCHANGED <<chatVars, msgVars, socketVars, inboxVars, walk, pitchVars>>

Unsubscribe(u, e) ==
  /\ \E x \in subscriptions : x.userId = u /\ x.endpoint = e
  /\ subscriptions' = {x \in subscriptions : ~(x.userId = u /\ x.endpoint = e)}
  /\ UNCHANGED <<podMembers, notifications, notifSeq, subSeq, ioUp, emits, jreq>>
  /\ UNCHANGED roomVars
  /\ UNCHANGED <<chatVars, msgVars, socketVars, inboxVars, walk, pitchVars>>

\* ---------------------------------------------------------------- Next

NextNotify ==
  \/ \E r \in ReqIds, u \in Users, p \in Pods : JoinStart(r, u, p)
  \/ \E r \in ReqIds : JoinCreateMember(r)
  \/ \E r \in ReqIds : HelperCreate(r)
  \/ \E r \in ReqIds : PushList(r)
  \/ \E r \in ReqIds, s \in 1..MaxSubs, code \in PushCodes : PushSettle(r, s, code)
  \/ \E r \in ReqIds, s \in 1..MaxSubs : PushDelete(r, s)
  \/ \E r \in ReqIds : JoinRespond(r)
  \/ \E u \in Users, p \in Pods : LeavePod(u, p)
  \/ \E u \in Subscribers : \E e \in DevicesOf(u) : Subscribe(u, e)
  \/ \E u \in Subscribers : \E e \in DevicesOf(u) : Unsubscribe(u, e)

SpecNotify == Init /\ [][NextNotify]_vars

\* ------------------------------------------------ claims: the fan-out

\* the steps of the helper that deliver: the socket emit and the push sends
DeliverySteps == {"emit", "push"}

\* C1: a join request that has written its PodMember row is never answered 500
\* because of an error raised by a delivery step of the helper (the socket emit,
\* the push sends): such an error never reaches the route's catch.
C1_DeliveryErrorNeverFailsRequest ==
  \A r \in ReqIds :
    (jreq[r].pc = "done" /\ jreq[r].status = 500) => jreq[r].thrown \notin DeliverySteps

\* a call of the helper leaves its notification.create
LeavesCreate(r) == jreq[r].pc = "notify" /\ jreq'[r].pc # "notify"

\* exactly one row, new, unread, for the owner of the request's pod, was added
OneNewUnreadRow(r) ==
  \E row \in notifications' :
    /\ notifications' = notifications \cup {row}
    /\ \A old \in notifications : old.id # row.id
    /\ row.userId = PodOwner(jreq[r].pod)
    /\ row.actor = jreq[r].user
    /\ row.isRead = FALSE

\* C2: every call of the helper whose row write goes through adds exactly one
\* Notification row, new and unread, for the target user, whatever rows with the
\* same arguments exist already; rows are added by no other step.
C2_OneUnreadRowPerCall ==
  [][ /\ \A r \in ReqIds :
           LeavesCreate(r) =>
             \/ jreq'[r].thrown = "create" /\ notifications' = notifications
             \/ jreq'[r].thrown # "create" /\ OneNewUnreadRow(r)
      /\ (notifications' # notifications => \E r \in ReqIds : LeavesCreate(r))
    ]_vars

C2_TwoRowsSameArguments ==
  \E a, b \in notifications :
    /\ a.id # b.id
    /\ a.userId = b.userId /\ a.actor = b.actor /\ a.linkedId = b.linkedId
    /\ ~a.isRead /\ ~b.isRead

\* C3: persist, then emit, then push: a call whose row write fails is answered 500
\* with no row, no socket event and no push send; a call reaches the push phase
\* only from a row written and (with a socket server) emitted in that order.
C3_PersistFirstOrFail ==
  [][ \A r \in ReqIds :
        /\ (LeavesCreate(r) /\ jreq'[r].thrown = "create") =>
              /\ notifications' = notifications
              /\ emits' = emits
              /\ jreq'[r].pc = "done" /\ jreq'[r].status = 500
              /\ jreq'[r].tasks = NoTasks
        /\ (jreq'[r].pc = "push_list" /\ jreq[r].pc # "push_list") =>
              /\ jreq[r].pc = "notify"
              /\ \E row \in notifications' \ notifications :
                    ioUp => [channel |-> row.userId, notifId |-> row.id] \in emits' \ emits
        /\ (jreq'[r].pc = "pushing" /\ jreq[r].pc # "pushing") => jreq[r].pc = "push_list"
        /\ (jreq'[r].tasks # NoTasks) => jreq'[r].pc = "pushing"
    ]_vars

C3_CreateFailedSeen ==
  \E r \in ReqIds : jreq[r].pc = "done" /\ jreq[r].thrown = "create" /\ jreq[r].status = 500

\* C4: the join request never waits for push sends: it is never at the push phase,
\* unanswered, with a send or a delete of the fan-out still outstanding.
C4_RequestNeverWaitsForPush ==
  \A r \in ReqIds : ~(jreq[r].pc = "pushing" /\ ~AllSettled(jreq[r].tasks))

\* C5: a fan-out starts one send for every subscription the target user has when it
\* lists them, each send is made once, the settling of one (a failure, a rejected
\* delete) leaves the others' sends as they are, and the request is then answered 201.
C5_EachSubscriptionOnce ==
  [][ \A r \in ReqIds :
        /\ (jreq'[r].pc = "pushing" /\ jreq[r].pc # "pushing") =>
              /\ DOMAIN jreq'[r].tasks = SubIdsOf(PodOwner(jreq[r].pod))
              /\ \A s \in DOMAIN jreq'[r].tasks : jreq'[r].tasks[s] = NewTask
        /\ \A s \in DOMAIN jreq'[r].tasks : jreq'[r].tasks[s].attempts = 1
        /\ (jreq[r].pc = "pushing" /\ jreq'[r].pc = "pushing") =>
              /\ DOMAIN jreq'[r].tasks = DOMAIN jreq[r].tasks
              /\ Cardinality({s \in DOMAIN jreq[r].tasks : jreq'[r].tasks[s] # jreq[r].tasks[s]}) <= 1
        /\ (jreq[r].pc = "pushing" /\ jreq'[r].pc # "pushing") =>
              /\ AllSettled(jreq[r].tasks)
              /\ jreq'[r].pc = "done" /\ jreq'[r].status = 201 /\ jreq'[r].thrown = "none"
    ]_vars

C5_FailuresBesideOthers ==
  \E r \in ReqIds :
    /\ jreq[r].pc = "pushing"
    /\ AllSettled(jreq[r].tasks)
    /\ \E s1, s2 \in DOMAIN jreq[r].tasks :
          /\ s1 # s2
          /\ jreq[r].tasks[s1].gone /\ jreq[r].tasks[s1].delErr
          /\ ~jreq[r].tasks[s2].gone

\* a send that the provider answered gone and whose delete was not rejected
Pruned(r, s) ==
  /\ s \in DOMAIN jreq[r].tasks
  /\ jreq[r].tasks[s].st = "settled"
  /\ jreq[r].tasks[s].gone
  /\ ~jreq[r].tasks[s].delErr

\* C6: a subscription the provider reported gone (404 or 410), once its send has
\* settled without the delete being rejected, is in no subscription list; a deleted
\* row never comes back; and a fan-out sends only to rows that are there when it lists.
C6_GoneSubscriptionPruned ==
  /\ [](\A r \in ReqIds : \A s \in DOMAIN jreq[r].tasks :
          Pruned(r, s) =>
            /\ s \notin AllSubIds
            /\ \A u \in Users : \A x \in ListSubscriptions(u) : x.id # s)
  /\ [][ /\ \A s \in AllSubIds' \ AllSubIds : s > subSeq
         /\ \A r \in ReqIds :
              (jreq'[r].pc = "pushing" /\ jreq[r].pc # "pushing") =>
                 DOMAIN jreq'[r].tasks \subseteq AllSubIds
     ]_vars

C6_LaterFanOutSkipsPruned ==
  \E r1, r2 \in ReqIds : \E s \in DOMAIN jreq[r1].tasks :
    /\ r1 # r2
    /\ Pruned(r1, s)
    /\ jreq[r2].pc = "pushing"
    /\ jreq[r2].tasks # NoTasks
    /\ s \notin DOMAIN jreq[r2].tasks
    /\ \A s2 \in DOMAIN jreq[r2].tasks : s2 > s

\* ======================================================================
\* Rooms: the join-request workflow, room members and pod-member flags
\* ======================================================================

\* the pods and rooms exist, alice has joined pod p1
InitRoom ==
  /\ podMembers = {PodMemberRow(p, PodOwner(p)) : p \in AllPods} \cup {PodMemberRow("p1", "alice")}
  /\ notifications = {}
  /\ notifSeq = 0
  /\ subscriptions = {}
  /\ subSeq = 0
  /\ ioUp = FALSE
  /\ emits = {}
  /\ jreq = [r \in ReqIds |-> IdleReq]
  /\ RoomInit
  /\ ChatInit
  /\ MsgInit
  /\ SocketInit
  /\ InboxInit
  /\ PitchInit

\* ------------------------------------------ POST /:roomId/join-request

\* the request arrives; room.findUnique, podMember.findUnique:
\* "You must be a member of the pod to request joining a room"
RequestJoinStart(k, u, room) ==
  LET p == RoomPod(room)
      allowed == IsPodMember(p, u) \/ PodOwner(p) = u
      next == IF RoomPrivacy(room) = "PUBLIC" THEN "find_member" ELSE "find_request"
  IN
  /\ rjreq[k].pc = "idle"
  /\ \A j \in JoinSlots : j < k => rjreq[j].pc # "idle"
  /\ IF allowed
     THEN /\ rjreq' = [rjreq EXCEPT ![k] = [IdleJoin EXCEPT !.pc = next, !.user = u, !.roomId = room]]
          /\ UNCHANGED last
     ELSE /\ last' = Answer("join_request", u, 403)
          /\ UNCHANGED rjreq
  /\ UNCHANGED <<podMembers, roomMembers, joinRequests, reqSeq, dreq>>
  /\ UNCHANGED notifyVars
  /\ UNCHANGED <<chatVars, msgVars, socketVars, inboxVars, walk, pitchVars>>

\* PUBLIC room: roomMember.findUnique, "You are already a member of this room"
RequestJoinFindMember(k) ==
  LET rq == rjreq[k] IN
  /\ rq.pc = "find_member"
  /\ IF IsRoomMember(rq.roomId, rq.user)
     THEN /\ last' = Answer("join_request", rq.user, 400)
          /\ rjreq' = [rjreq EXCEPT ![k] = IdleJoin]
     ELSE /\ rjreq' = [rjreq EXCEPT ![k].pc = "create_member"]
          /\ UNCHANGED last
  /\ UNCHANGED <<podMembers, roomMembers, joinRequests, reqSeq, dreq>>
  /\ UNCHANGED notifyVars
  /\ UNCHANGED <<chatVars, msgVars, socketVars, inboxVars, walk, pitchVars>>

\* PUBLIC room: roomMember.create, 'JOINED'; the unique index on
\* (roomId, userId) rejects a second row and the catch answers 500
RequestJoinCreateMember(k) ==
  LET rq == rjreq[k] IN
  /\ rq.pc = "create_member"
  /\ IF IsRoomMember(rq.roomId, rq.user)
     THEN /\ last' = Answer("join_request", rq.user, 500)
          /\ UNCHANGED roomMembers
     ELSE /\ roomMembers' = CreateRoomMember(roomMembers, rq.roomId, rq.user)
          /\ last' = Answer("join_request", rq.user, 200)
  /\ rjreq' = [rjreq EXCEPT ![k] = IdleJoin]
  /\ UNCHANGED <<podMembers, joinRequests, reqSeq, dreq>>
  /\ UNCHANGED notifyVars
  /\ UNCHANGED <<chatVars, msgVars, socketVars, inboxVars, walk, pitchVars>>

\* PRIVATE room: roomJoinRequest.findUnique by (roomId, userId) and the branch on
\* its status: pending and accepted requests are answered 400
RequestJoinFindRequest(k) ==
  LET rq == rjreq[k]
      branch == ExistingRequestBranch(StatusOf(rq.roomId, rq.user))
      found == IF RequestsOf(rq.roomId, rq.user) = {} THEN 0
               ELSE (CHOOSE q \in RequestsOf(rq.roomId, rq.user) : TRUE).id
  IN
  /\ rq.pc = "find_request"
  /\ IF branch \in {"pending", "accepted"}
     THEN /\ last' = Answer("join_request", rq.user, 400)
          /\ rjreq' = [rjreq EXCEPT ![k] = IdleJoin]
     ELSE /\ rjreq' = [rjreq EXCEPT ![k].pc = branch, ![k].existing = found]
          /\ UNCHANGED last
  /\ UNCHANGED <<podMembers, roomMembers, joinRequests, reqSeq, dreq>>
  /\ UNCHANGED notifyVars
  /\ UNCHANGED <<chatVars, msgVars, socketVars, inboxVars, walk, pitchVars>>

\* the request found was REJECTED: roomJoinRequest.update to PENDING by id
RequestJoinResubmit(k) ==
  LET rq == rjreq[k] IN
  /\ rq.pc = "resubmit"
  /\ joinRequests' = Resubmit(joinRequests, rq.existing)
  /\ last' = Answer("join_request", rq.user, 200)
  /\ rjreq' = [rjreq EXCEPT ![k] = IdleJoin]
  /\ UNCHANGED <<podMembers, roomMembers, reqSeq, dreq>>
  /\ UNCHANGED notifyVars
  /\ UNCHANGED <<chatVars, msgVars, socketVars, inboxVars, walk, pitchVars>>

\* no request was found: roomJoinRequest.create; the unique index on
\* (roomId, userId) rejects a second row and the catch answers 500
RequestJoinCreate(k) ==
  LET rq == rjreq[k] IN
  /\ rq.pc = "create"
  /\ IF UniqueViolation(rq.roomId, rq.user)
     THEN /\ last' = Answer("join_request", rq.user, 500)
          /\ UNCHANGED <<joinRequests, reqSeq>>
     ELSE /\ joinRequests' = joinRequests \cup {NewJoinRequest(reqSeq + 1, rq.roomId, rq.user)}
          /\ reqSeq' = reqSeq + 1
          /\ last' = Answer("join_request", rq.user, 201)
  /\ rjreq' = [rjreq EXCEPT ![k] = IdleJoin]
  /\ UNCHANGED <<podMembers, roomMembers, dreq>>
  /\ UNCHANGED notifyVars
  /\ UNCHANGED <<chatVars, msgVars, socketVars, inboxVars, walk, pitchVars>>

\* ------------------------------ PUT /:roomId/join-requests/:requestId

\* the request arrives; isPodOwner, the validator, room.findUnique and the
\* owner check, roomJoinRequest.findUnique by id and the checks on the row
DecideStart(k, c, room, id, st) ==
  LET code == DecideCheck(c, room, id, st) IN
  /\ dreq[k].pc = "idle"
  /\ \A j \in DecideSlots : j < k => dreq[j].pc # "idle"
  /\ IF code # 0
     THEN /\ last' = Answer("decide", c, code)
          /\ UNCHANGED dreq
     ELSE /\ dreq' = [dreq EXCEPT ![k] =
                        [pc |-> "update", caller |-> c, roomId |-> room, requestId |-> id,
                         status |-> st,
                         userId |-> (CHOOSE q \in RequestsById(id) : TRUE).userId]]
          /\ UNCHANGED last
  /\ UNCHANGED <<podMembers, roomMembers, joinRequests, reqSeq, rjreq>>
  /\ UNCHANGED notifyVars
  /\ UNCHANGED <<chatVars, msgVars, socketVars, inboxVars, walk, pitchVars>>

\* roomJoinRequest.update({where: {id: requestId}, data: {status}})
DecideUpdate(k) ==
  LET rq == dreq[k] IN
  /\ rq.pc = "update"
  /\ joinRequests' = SetStatus(joinRequests, rq.requestId, rq.status)
  /\ IF rq.status = "ACCEPTED"
     THEN /\ dreq' = [dreq EXCEPT ![k].pc = "find_member"]
          /\ UNCHANGED last
     ELSE /\ dreq' = [dreq EXCEPT ![k] = IdleDecide]
          /\ last' = Answer("decide", rq.caller, 200)
  /\ UNCHANGED <<podMembers, roomMembers, reqSeq, rjreq>>
  /\ UNCHANGED notifyVars
  /\ UNCHANGED <<chatVars, msgVars, socketVars, inboxVars, walk, pitchVars>>

\* accepted: roomMember.findUnique; a member already there is left alone
DecideFindMember(k) ==
  LET rq == dreq[k] IN
  /\ rq.pc = "find_member"
  /\ IF IsRoomMember(rq.roomId, rq.userId)
     THEN /\ dreq' = [dreq EXCEPT ![k] = IdleDecide]
          /\ last' = Answer("decide", rq.caller, 200)
     ELSE /\ dreq' = [dreq EXCEPT ![k].pc = "create_member"]
          /\ UNCHANGED last
  /\ UNCHANGED <<podMembers, roomMembers, joinRequests, reqSeq, rjreq>>
  /\ UNCHANGED notifyVars
  /\ UNCHANGED <<chatVars, msgVars, socketVars, inboxVars, walk, pitchVars>>

\* accepted and no member found: roomMember.create; the unique index on
\* (roomId, userId) rejects a second row and the catch answers 500
DecideCreateMember(k) ==
  LET rq == dreq[k] IN
  /\ rq.pc = "create_member"
  /\ IF IsRoomMember(rq.roomId, rq.userId)
     THEN /\ last' = Answer("decide", rq.caller, 500)
          /\ UNCHANGED roomMembers
     ELSE /\ roomMembers' = CreateRoomMember(roomMembers, rq.roomId, rq.userId)
          /\ last' = Answer("decide", rq.caller, 200)
  /\ dreq' = [dreq EXCEPT ![k] = IdleDecide]
  /\ UNCHANGED <<podMembers, joinRequests, reqSeq, rjreq>>
  /\ UNCHANGED notifyVars
  /\ UNCHANGED <<chatVars, msgVars, socketVars, inboxVars, walk, pitchVars>>

\* ------------- POST /:roomId/members, DELETE /:roomId/members/:userId

AddMember(c, room, u) ==
  LET code == IF ~HasPodOwnerRole(c) THEN 403
              ELSE IF ~OwnsPod(c, RoomPod(room)) THEN 403
              ELSE IF IsRoomMember(room, u) THEN 400
              ELSE 200
  IN
  /\ roomMembers' = IF code = 200 THEN CreateRoomMember(roomMembers, room, u) ELSE roomMembers
  /\ last' = Answer("add_member", c, code)
  /\ UNCHANGED <<podMembers, joinRequests, reqSeq, rjreq, dreq>>
  /\ UNCHANGED notifyVars
  /\ UNCHANGED <<chatVars, msgVars, socketVars, inboxVars, walk, pitchVars>>

\* roomMember.delete of a row that is not there throws: the catch answers 500
RemoveMember(c, room, u) ==
  LET code == IF ~HasPodOwnerRole(c) THEN 403
              ELSE IF ~OwnsPod(c, RoomPod(room)) THEN 403
              ELSE IF ~IsRoomMember(room, u) THEN 500
              ELSE 200
  IN
  /\ roomMembers' = IF code = 200 THEN DeleteRoomMember(roomMembers, room, u) ELSE roomMembers
  /\ last' = Answer("remove_member", c, code)
  /\ UNCHANGED <<podMembers, joinRequests, reqSeq, rjreq, dreq>>
  /\ UNCHANGED notifyVars
  /\ UNCHANGED <<chatVars, msgVars, socketVars, inboxVars, walk, pitchVars>>

\* ----------------------------------- the pod-member flag routes of pods

\* podMember.update({where: {podId_userId}, data})
SetCoOwner(p, u, v) ==
  {IF m.podId = p /\ m.userId = u THEN [m EXCEPT !.isCoOwner = v] ELSE m : m \in podMembers}
SetTeamMember(p, u, v) ==
  {IF m.podId = p /\ m.userId = u THEN [m EXCEPT !.isTeamMember = v] ELSE m : m \in podMembers}

\* POST /:podId/members/:userId/promote
Promote(c, p, u) ==
  LET code == IF ~OwnsPod(c, p) THEN 403
              ELSE IF MemberRows(p, u) = {} THEN 404
              ELSE IF IsCoOwner(p, u) THEN 400
              ELSE 200
  IN
  /\ podMembers' = IF code = 200 THEN SetCoOwner(p, u, TRUE) ELSE podMembers
  /\ last' = Answer("promote", c, code)
  /\ UNCHANGED <<roomMembers, joinRequests, reqSeq, rjreq, dreq>>
  /\ UNCHANGED notifyVars
  /\ UNCHANGED <<chatVars, msgVars, socketVars, inboxVars, walk, pitchVars>>

\* POST /:podId/members/:userId/demote
Demote(c, p, u) ==
  LET code == IF ~OwnsPod(c, p) THEN 403
              ELSE IF MemberRows(p, u) = {} THEN 404
              ELSE IF ~IsCoOwner(p, u) THEN 400
              ELSE 200
  IN
  /\ podMembers' = IF code = 200 THEN SetCoOwner(p, u, FALSE) ELSE podMembers
  /\ last' = Answer("demote", c, code)
  /\ UNCHANGED <<roomMembers, joinRequests, reqSeq, rjreq, dreq>>
  /\ UNCHANGED notifyVars
  /\ UNCHANGED <<chatVars, msgVars, socketVars, inboxVars, walk, pitchVars>>

\* POST /:podId/members/:userId/assign-team-member
AssignTeamMember(c, p, u) ==
  LET code == IF ~OwnsPod(c, p) THEN 403
              ELSE IF MemberRows(p, u) = {} THEN 404
              ELSE IF IsCoOwner(p, u) THEN 400
              ELSE IF IsTeamMember(p, u) THEN 400
              ELSE 200
  IN
  /\ podMembers' = IF code = 200 THEN SetTeamMember(p, u, TRUE) ELSE podMembers
  /\ last' = Answer("assign_team_member", c, code)
  /\ UNCHANGED <<roomMembers, joinRequests, reqSeq, rjreq, dreq>>
  /\ UNCHANGED notifyVars
  /\ UNCHANGED <<chatVars, msgVars, socketVars, inboxVars, walk, pitchVars>>

\* DELETE /:podId/members/:userId/remove-team-member
RemoveTeamMember(c, p, u) ==
  LET code == IF ~OwnsPod(c, p) THEN 403
              ELSE IF MemberRows(p, u) = {} THEN 404
              ELSE IF ~IsTeamMember(p, u) THEN 400
              ELSE 200
  IN
  /\ podMembers' = IF code = 200 THEN SetTeamMember(p, u, FALSE) ELSE podMembers
  /\ last' = Answer("remove_team_member", c, code)
  /\ UNCHANGED <<roomMembers, joinRequests, reqSeq, rjreq, dreq>>
  /\ UNCHANGED notifyVars
  /\ UNCHANGED <<chatVars, msgVars, socketVars, inboxVars, walk, pitchVars>>

\* PUT /:podId with coOwnerUsernames: open to the owner and to co-owners, but the
\* list is applied only for the owner: co-owner rows of users not on the list are
\* deleted, the users on the list are upserted with isCoOwner = true
UpdatePod(c, p, given, names) ==
  LET allowed == PodOwner(p) = c \/ IsCoOwner(p, c)
      kept == {m \in podMembers : ~(m.podId = p /\ m.isCoOwner /\ m.userId \notin names)}
      upserted == {IF m.podId = p /\ m.userId \in names THEN [m EXCEPT !.isCoOwner = TRUE] ELSE m
                     : m \in kept}
                  \cup {[PodMemberRow(p, u) EXCEPT !.isCoOwner = TRUE]
                          : u \in {x \in names : \A m \in kept : ~(m.podId = p /\ m.userId = x)}}
  IN
  /\ podMembers' = IF allowed /\ given /\ PodOwner(p) = c THEN upserted ELSE podMembers
  /\ last' = Answer("update_pod", c, IF allowed THEN 200 ELSE 403)
  /\ UNCHANGED <<roomMembers, joinRequests, reqSeq, rjreq, dreq>>
  /\ UNCHANGED notifyVars
  /\ UNCHANGED <<chatVars, msgVars, socketVars, inboxVars, walk, pitchVars>>

NextRoom ==
  \/ \E k \in JoinSlots, u \in Requesters, room \in Rooms : RequestJoinStart(k, u, room)
  \/ \E k \in JoinSlots : RequestJoinFindMember(k)
  \/ \E k \in JoinSlots : RequestJoinCreateMember(k)
  \/ \E k \in JoinSlots : RequestJoinFindRequest(k)
  \/ \E k \in JoinSlots : RequestJoinResubmit(k)
  \/ \E k \in JoinSlots : RequestJoinCreate(k)
  \/ \E k \in DecideSlots, c \in Callers, room \in Rooms, id \in RequestIds, st \in StatusInputs :
       DecideStart(k, c, room, id, st)
  \/ \E k \in DecideSlots : DecideUpdate(k)
  \/ \E k \in DecideSlots : DecideFindMember(k)
  \/ \E k \in DecideSlots : DecideCreateMember(k)
  \/ \E c \in Callers, room \in Rooms, u \in Targets : AddMember(c, room, u)
  \/ \E c \in Callers, room \in Rooms, u \in Targets : RemoveMember(c, room, u)
  \/ \E u \in Targets, p \in Pods : LeavePod(u, p)

SpecRoom == InitRoom /\ [][NextRoom]_vars

\* the same routes with one decision at a time, and the pod-member flag routes
NextFlags ==
  \/ \E k \in OneAtATime, u \in Requesters, room \in Rooms : RequestJoinStart(k, u, room)
  \/ \E k \in OneAtATime : RequestJoinFindMember(k)
  \/ \E k \in OneAtATime : RequestJoinCreateMember(k)
  \/ \E k \in OneAtATime : RequestJoinFindRequest(k)
  \/ \E k \in OneAtATime : RequestJoinResubmit(k)
  \/ \E k \in OneAtATime : RequestJoinCreate(k)
  \/ \E k \in OneAtATime, c \in Callers, room \in Rooms, id \in RequestIds, st \in StatusInputs :
       DecideStart(k, c, room, id, st)
  \/ \E k \in OneAtATime : DecideUpdate(k)
  \/ \E k \in OneAtATime : DecideFindMember(k)
  \/ \E k \in OneAtATime : DecideCreateMember(k)
  \/ \E c \in Callers, room \in Rooms, u \in Targets : AddMember(c, room, u)
  \/ \E c \in Callers, room \in Rooms, u \in Targets : RemoveMember(c, room, u)
  \/ \E c \in Callers, p \in Pods, u \in Targets : Promote(c, p, u)
  \/ \E c \in Callers, p \in Pods, u \in Targets : Demote(c, p, u)
  \/ \E c \in Callers, p \in Pods, u \in Targets : AssignTeamMember(c, p, u)
  \/ \E c \in Callers, p \in Pods, u \in Targets : RemoveTeamMember(c, p, u)
  \/ \E c \in Callers, p \in Pods, given \in BOOLEAN, names \in SUBSET Targets :
       UpdatePod(c, p, given, names)
  \/ \E u \in Targets, p \in Pods : LeavePod(u, p)

SpecFlags == InitRoom /\ [][NextFlags]_vars

\* ------------------------------------- claims: rooms and pod-member flags

\* the moves of a join request's status the workflow names
AllowedMoves ==
  {<<"NONE", "PENDING">>, <<"PENDING", "ACCEPTED">>, <<"PENDING", "REJECTED">>,
   <<"REJECTED", "PENDING">>}

\* C7: in every step the status of the join request of a (room, user) pair either
\* stays as it is or moves along NONE->PENDING, PENDING->ACCEPTED,
\* PENDING->REJECTED or REJECTED->PENDING; a request already accepted or rejected
\* is not changed by a decision, however decisions and requests interleave.
C7_StatusMovesAlongTable ==
  [][ \A room \in Rooms, u \in Requesters :
        StatusOf(room, u)' # StatusOf(room, u)
          => <<StatusOf(room, u), StatusOf(room, u)'>> \in AllowedMoves ]_vars

\* the call is answered 403 and nothing stored or in flight has changed
Refused(op, c) ==
  /\ last' = [op |-> op, caller |-> c, status |-> 403]
  /\ UNCHANGED <<podMembers, roomMembers, joinRequests, reqSeq, rjreq, dreq>>

\* a PodMember row of (p, u) is there before and after the step with another flag
FlagChanged(p, u) ==
  \E m \in podMembers, n \in podMembers' :
    /\ m.podId = p /\ m.userId = u /\ n.podId = p /\ n.userId = u
    /\ (m.isCoOwner # n.isCoOwner \/ m.isTeamMember # n.isTeamMember)

\* the step moves the request of (room, u) from PENDING to ACCEPTED or REJECTED
Decided(room, u) ==
  StatusOf(room, u) = "PENDING" /\ StatusOf(room, u)' \in {"ACCEPTED", "REJECTED"}

\* C8: a call of promote, demote, assign-team-member, remove-team-member or of
\* the accept/reject route by anyone but the owner of the pod concerned is
\* answered 403 and changes no flag, no request and no room membership; every
\* step that changes a flag of a member or moves a request from PENDING to
\* ACCEPTED or REJECTED belongs to a call made by the owner of the pod.
C8_OnlyOwnerFlagsAndDecisions ==
  [][ /\ \A c \in Callers, p \in Pods, u \in Targets :
           c # PodOwner(p) =>
             /\ Promote(c, p, u) => Refused("promote", c)
             /\ Demote(c, p, u) => Refused("demote", c)
             /\ AssignTeamMember(c, p, u) => Refused("assign_team_member", c)
             /\ RemoveTeamMember(c, p, u) => Refused("remove_team_member", c)
             /\ \A given \in BOOLEAN, names \in SUBSET Targets :
                  UpdatePod(c, p, given, names) => podMembers' = podMembers
      /\ \A k \in OneAtATime, c \in Callers, room \in Rooms, id \in RequestIds :
           \A st \in {"ACCEPTED", "REJECTED"} :
             (c # PodOwner(RoomPod(room)) /\ DecideStart(k, c, room, id, st))
               => Refused("decide", c)
      /\ \A p \in Pods, u \in Targets :
           FlagChanged(p, u) =>
             \/ Promote(PodOwner(p), p, u) \/ Demote(PodOwner(p), p, u)
             \/ AssignTeamMember(PodOwner(p), p, u) \/ RemoveTeamMember(PodOwner(p), p, u)
             \/ \E names \in SUBSET Targets : UpdatePod(PodOwner(p), p, TRUE, names)
      /\ \A room \in Rooms, u \in Requesters :
           Decided(room, u) =>
             \E k \in OneAtATime :
               DecideUpdate(k) /\ dreq[k].caller = PodOwner(RoomPod(room)) ]_vars

\* alice, a co-owner of p1, has just been refused when demoting
C8_CoOwnerRefused ==
  /\ last = [op |-> "demote", caller |-> "alice", status |-> 403]
  /\ IsCoOwner("p1", "alice")

\* C9: the update of an accepting decision sets the request to ACCEPTED; when the
\* accepting decision ends there is exactly one RoomMember row of the (room,
\* user) pair, created by it if there was none and left alone if there was one;
\* no step of a rejecting decision changes the room members.
C9_AcceptLeavesOneMember ==
  [][ \A k \in DecideSlots :
        LET rq == dreq[k]
            key == <<rq.roomId, rq.userId>>
        IN
        /\ (rq.pc = "update" /\ dreq'[k].pc # "update" /\ rq.status = "ACCEPTED")
             => \E q \in joinRequests' : q.id = rq.requestId /\ q.status = "ACCEPTED"
        /\ (rq.pc \in {"find_member", "create_member"} /\ dreq'[k].pc = "idle")
             => /\ rq.status = "ACCEPTED"
                /\ roomMembers'[key] = 1
                /\ roomMembers[key] = 0 => roomMembers' = [roomMembers EXCEPT ![key] = 1]
                /\ roomMembers[key] > 0 => roomMembers' = roomMembers
        /\ (rq.pc # "idle" /\ rq.status = "REJECTED" /\ dreq'[k] # rq)
             => /\ roomMembers' = roomMembers
                /\ dreq'[k].pc = "idle" ]_vars

\* the owner's accept of alice's request has been answered 200: the request is
\* ACCEPTED and alice has one RoomMember row of the private room
C9_AcceptedAndMember ==
  /\ last = [op |-> "decide", caller |-> "o1", status |-> 200]
  /\ StatusOf("priv", "alice") = "ACCEPTED"
  /\ roomMembers[<<"priv", "alice">>] = 1
  /\ \A k \in DecideSlots : dreq[k].pc = "idle"

\* C10: a join-request call gets past the pod-membership check only for a pod
\* member; for a PRIVATE room with no request of the pair it goes on to the
\* create, which adds exactly one row, PENDING, and answers 201; a call that
\* finds the request PENDING answers 400 and changes no row.
C10_FirstRequestPendingSecondRefused ==
  [][ \A k \in JoinSlots :
        LET rq == rjreq[k] IN
        /\ (rq.pc = "idle" /\ rjreq'[k].pc # "idle")
             => IsPodMember(RoomPod(rjreq'[k].roomId), rjreq'[k].user)
        /\ (rq.pc = "find_request" /\ rjreq'[k] # rq /\ StatusOf(rq.roomId, rq.user) = "NONE")
             => /\ RoomPrivacy(rq.roomId) = "PRIVATE"
                /\ rjreq'[k].pc = "create"
        /\ (rq.pc = "create" /\ rjreq'[k] # rq /\ StatusOf(rq.roomId, rq.user) = "NONE")
             => /\ \E q \in joinRequests' :
                     /\ q \notin joinRequests
                     /\ joinRequests' = joinRequests \cup {q}
                     /\ q.roomId = rq.roomId /\ q.userId = rq.user /\ q.status = "PENDING"
                     /\ \A old \in joinRequests : old.id # q.id
                /\ Cardinality({q \in joinRequests' : q.roomId = rq.roomId /\ q.userId = rq.user}) = 1
                /\ last' = [op |-> "join_request", caller |-> rq.user, status |-> 201]
        /\ (rq.pc = "find_request" /\ rjreq'[k] # rq /\ StatusOf(rq.roomId, rq.user) = "PENDING")
             => /\ last' = [op |-> "join_request", caller |-> rq.user, status |-> 400]
                /\ rjreq'[k].pc = "idle"
                /\ UNCHANGED <<joinRequests, reqSeq, roomMembers, podMembers>> ]_vars

\* alice's second call was answered 400 while her one request is PENDING
C10_SecondCallRefused ==
  /\ last = [op |-> "join_request", caller |-> "alice", status |-> 400]
  /\ StatusOf("priv", "alice") = "PENDING"
  /\ Cardinality(joinRequests) = 1
  /\ roomMembers[<<"pub", "alice">>] = 0

\* the ids of the join request rows
RequestIdsStored(rows) == {q.id : q \in rows}

\* C11: a join-request call that finds the request REJECTED goes on to the
\* resubmission with the id of that row; the resubmission adds no row and removes
\* none, leaves exactly one row of the (room, user) pair, puts that row to
\* PENDING and answers 200, however many times the request was rejected before.
C11_ResubmitReusesRow ==
  [][ \A k \in JoinSlots :
        LET rq == rjreq[k] IN
        /\ (rq.pc = "find_request" /\ rjreq'[k] # rq /\ StatusOf(rq.roomId, rq.user) = "REJECTED")
             => /\ rjreq'[k].pc = "resubmit"
                /\ \E q \in joinRequests :
                     /\ q.id = rjreq'[k].existing
                     /\ q.roomId = rq.roomId /\ q.userId = rq.user
                /\ UNCHANGED joinRequests
        /\ (rq.pc = "resubmit" /\ rjreq'[k] # rq)
             => /\ RequestIdsStored(joinRequests') = RequestIdsStored(joinRequests)
                /\ Cardinality(joinRequests') = Cardinality(joinRequests)
                /\ Cardinality({q \in joinRequests' :
                                  q.roomId = rq.roomId /\ q.userId = rq.user}) = 1
                /\ \A q \in joinRequests' : q.id = rq.existing => q.status = "PENDING"
                /\ last' = [op |-> "join_request", caller |-> rq.user, status |-> 200] ]_vars

\* alice's rejected request was resubmitted: her one row is PENDING again
C11_ResubmittedOnce ==
  /\ last = [op |-> "join_request", caller |-> "alice", status |-> 200]
  /\ joinRequests = {[id |-> 1, roomId |-> "priv", userId |-> "alice", status |-> "PENDING"]}
  /\ roomMembers[<<"pub", "alice">>] = 0
  /\ \A k \in JoinSlots : rjreq[k].pc = "idle"

\* C12: a join-request call that finds the request ACCEPTED answers 400 and
\* ends there: no join request row and no room member row changes.
C12_AcceptedRequestRefused ==
  [][ \A k \in JoinSlots :
        LET rq == rjreq[k] IN
        (rq.pc = "find_request" /\ rjreq'[k] # rq /\ StatusOf(rq.roomId, rq.user) = "ACCEPTED")
          => /\ last' = [op |-> "join_request", caller |-> rq.user, status |-> 400]
             /\ rjreq'[k].pc = "idle"
             /\ UNCHANGED <<joinRequests, reqSeq, roomMembers, podMembers>> ]_vars

\* alice asked again after the owner's accept was over and was answered 400
C12_AskedAgainAfterAccept ==
  /\ last = [op |-> "join_request", caller |-> "alice", status |-> 400]
  /\ StatusOf("priv", "alice") = "ACCEPTED"
  /\ roomMembers[<<"priv", "alice">>] = 1
  /\ roomMembers[<<"pub", "alice">>] = 0
  /\ \A k \in DecideSlots : dreq[k].pc = "idle"

\* C13: a join-request call for the PUBLIC room never reads or writes a join
\* request: it goes from the pod-membership check to the member lookup, a
\* caller who is no member yet gets exactly one RoomMember row and 200, when
\* the call ends the caller has one RoomMember row, and no join request row of
\* the PUBLIC room ever exists.
C13_PublicJoinIsImmediate ==
  /\ [](\A q \in joinRequests : q.roomId # "pub")
  /\ [][ \A k \in JoinSlots :
            LET rq == rjreq[k]
                key == <<"pub", rq.user>>
            IN
            /\ (rq.pc = "idle" /\ rjreq'[k].pc # "idle" /\ rjreq'[k].roomId = "pub")
                 => rjreq'[k].pc = "find_member"
            /\ (rq.pc # "idle" /\ rq.roomId = "pub" /\ rjreq'[k] # rq)
                 => /\ UNCHANGED <<joinRequests, reqSeq>>
                    /\ rq.pc \in {"find_member", "create_member"}
                    /\ rjreq'[k].pc \in {"create_member", "idle"}
                    /\ rjreq'[k].pc = "idle" => roomMembers'[key] = 1
                    /\ (rq.pc = "create_member" /\ roomMembers[key] = 0)
                         => /\ roomMembers' = [roomMembers EXCEPT ![key] = 1]
                            /\ last' = [op |-> "join_request", caller |-> rq.user,
                                        status |-> 200] ]_vars

\* alice joined the PUBLIC room at once: a member, and no join request anywhere
C13_JoinedPublicRoom ==
  /\ last = [op |-> "join_request", caller |-> "alice", status |-> 200]
  /\ roomMembers[<<"pub", "alice">>] = 1
  /\ joinRequests = {}

\* C14: at every moment a (room, user) pair has at most one join request row,
\* hence at most one PENDING one, also while several join-request calls of the
\* same user for the same room are in flight.
C14_OneRequestPerPair ==
  \A room \in Rooms, u \in Requesters :
    /\ Cardinality({q \in joinRequests : q.roomId = room /\ q.userId = u}) <= 1
    /\ Cardinality({q \in joinRequests :
                      q.roomId = room /\ q.userId = u /\ q.status = "PENDING"}) <= 1

\* two calls of alice raced: one created the row, the other's create was
\* rejected by the unique index and answered 500
C14_SecondCreateRejected ==
  /\ last = [op |-> "join_request", caller |-> "alice", status |-> 500]
  /\ Cardinality(joinRequests) = 1
  /\ roomMembers[<<"pub", "alice">>] = 0

\* ======================================================================
\* Chats and messages: get-or-create, send, list by cursor, delete
\* ======================================================================

\* what no chat or message route touches
FrameList == UNCHANGED <<notifyVars, podMembers, roomMembers, joinRequests, reqSeq, rjreq, dreq, socketVars, inboxVars, pitchVars>>

FrameChat == FrameList /\ UNCHANGED walk

\* ------------------------------------------------ POST /get-or-create

\* the request arrives; "Cannot create chat with yourself", user.findUnique,
\* chat.findMany and the filter; an existing chat is the answer
GetOrCreateStart(k, u, t) ==
  /\ creq[k].pc = "idle"
  /\ IF t = u
       THEN /\ last' = Answer("get_or_create", u, 400)
            /\ body' = <<>>
            /\ UNCHANGED creq
       ELSE IF t \notin ExistingUsers
         THEN /\ last' = Answer("get_or_create", u, 404)
              /\ body' = <<>>
              /\ UNCHANGED creq
         ELSE IF ExistingChats(u, t) # {}
           THEN /\ \E existingChat \in ExistingChats(u, t) : body' = <<existingChat.id>>
                /\ last' = Answer("get_or_create", u, 200)
                /\ UNCHANGED creq
           ELSE /\ creq' = [creq EXCEPT ![k] = [pc |-> "create", user |-> u, target |-> t]]
                /\ UNCHANGED <<last, body>>
  /\ UNCHANGED <<chats, chatSeq, msgVars>>
  /\ FrameChat

\* chat.create with the two participants; 201
GetOrCreateCreate(k) ==
  /\ creq[k].pc = "create"
  /\ chats' = chats \cup {NewChat(chatSeq + 1, creq[k].user, creq[k].target)}
  /\ chatSeq' = chatSeq + 1
  /\ last' = Answer("get_or_create", creq[k].user, 201)
  /\ body' = <<chatSeq + 1>>
  /\ creq' = [creq EXCEPT ![k] = IdleChat]
  /\ UNCHANGED msgVars
  /\ FrameChat

\* ---------------------------------------------- POST /:chatId/messages

\* the request arrives; chatParticipant.findUnique:
\* "You are not a participant of this chat"
SendStart(k, u, chatId) ==
  /\ sreq[k].pc = "idle"
  /\ IF IsParticipant(chatId, u)
       THEN /\ sreq' = [sreq EXCEPT ![k] = [pc |-> "create", user |-> u, chatId |-> chatId]]
            /\ UNCHANGED <<last, body>>
       ELSE /\ last' = Answer("send", u, 403)
            /\ body' = <<>>
            /\ UNCHANGED sreq
  /\ UNCHANGED <<chats, chatSeq, creq, messages, msgSeq, clock, lreq, xreq>>
  /\ FrameChat

\* message.create, chat.update of updatedAt; 201
SendCreate(k) ==
  /\ sreq[k].pc = "create"
  /\ msgSeq < MaxMessages
  /\ messages' = messages \cup
       {NewMessage(msgSeq + 1, NoRoom, sreq[k].chatId, sreq[k].user, clock)}
  /\ msgSeq' = msgSeq + 1
  /\ last' = Answer("send", sreq[k].user, 201)
  /\ body' = <<>>
  /\ sreq' = [sreq EXCEPT ![k] = IdleSend]
  /\ UNCHANGED <<chats, chatSeq, creq, clock, lreq, xreq>>
  /\ FrameChat

\* ------------------------------------------ DELETE /messages/:messageId

\* the request arrives; message.findUnique: "Message not found",
\* "You can only delete your own messages"
DeleteStart(k, u, id) ==
  /\ xreq[k].pc = "idle"
  /\ IF MessagesById(id) = {}
       THEN /\ last' = Answer("delete", u, 404)
            /\ UNCHANGED xreq
       ELSE IF \E m \in MessagesById(id) : ~IsSender(m, u)
         THEN /\ last' = Answer("delete", u, 403)
              /\ UNCHANGED xreq
         ELSE /\ xreq' = [xreq EXCEPT ![k] = [pc |-> "delete", user |-> u, messageId |-> id]]
              /\ UNCHANGED last
  /\ body' = IF xreq'[k].pc = "idle" THEN <<>> ELSE body
  /\ UNCHANGED <<chats, chatSeq, creq, messages, msgSeq, clock, lreq, sreq>>
  /\ FrameChat

\* message.delete; a row that is gone by now makes it throw: 500
DeleteDo(k) ==
  /\ xreq[k].pc = "delete"
  /\ messages' = {m \in messages : m.id # xreq[k].messageId}
  /\ last' = Answer("delete", xreq[k].user,
                    IF MessagesById(xreq[k].messageId) = {} THEN 500 ELSE 200)
  /\ body' = <<>>
  /\ xreq' = [xreq EXCEPT ![k] = IdleDelete]
  /\ UNCHANGED <<chats, chatSeq, creq, msgSeq, clock, lreq, sreq>>
  /\ FrameChat

\* ----------------------------------------------- GET /:chatId/messages

\* what the handler does once the caller is let in: look the cursor up
\* when before was given, else go on to findMany
AfterAuth(r) == [r EXCEPT !.pc = IF r.before # NoMessage THEN "cursor" ELSE "find"]

\* the request arrives; chatParticipant.findUnique:
\* "You are not a participant of this chat"
ChatMessagesCall(k, u, chatId, limit, before) ==
  /\ lreq[k].pc = "idle"
  /\ IF IsParticipant(chatId, u)
       THEN /\ lreq' = [lreq EXCEPT ![k] =
                   AfterAuth([pc |-> "idle", caller |-> u, roomId |-> NoRoom, chatId |-> chatId,
                              limit |-> limit, before |-> before, beforeAt |-> NoTime])]
            /\ UNCHANGED <<last, body>>
       ELSE /\ last' = Answer("chat_messages", u, 403)
            /\ body' = <<>>
            /\ UNCHANGED lreq
  /\ UNCHANGED <<chats, chatSeq, creq, messages, msgSeq, clock, sreq, xreq>>
  /\ FrameList

ChatMessagesStart(k, u, chatId, limit, before) ==
  ChatMessagesCall(k, u, chatId, limit, before) /\ UNCHANGED walk

\* message.findUnique of the cursor, select createdAt;
\* if (beforeMessage) whereClause.createdAt = { lt: beforeMessage.createdAt }
ListCursor(k) ==
  /\ lreq[k].pc = "cursor"
  /\ IF MessagesById(lreq[k].before) # {}
       THEN \E beforeMessage \in MessagesById(lreq[k].before) :
              lreq' = [lreq EXCEPT ![k].pc = "find", ![k].beforeAt = beforeMessage.createdAt]
       ELSE lreq' = [lreq EXCEPT ![k].pc = "find"]
  /\ UNCHANGED <<last, body, chats, chatSeq, creq, messages, msgSeq, clock, sreq, xreq>>
  /\ FrameChat

\* message.findMany; res.json({ messages: messages.reverse() })
ListAnswer(k, op) ==
  /\ lreq[k].pc = "find"
  /\ body' \in PagesOf(messages, WhereClause(lreq[k]), lreq[k].limit)
  /\ last' = Answer(op, lreq[k].caller, 200)
  /\ lreq' = [lreq EXCEPT ![k] = IdleList]
  /\ UNCHANGED <<chats, chatSeq, creq, messages, msgSeq, clock, sreq, xreq>>
  /\ FrameList

ListFind(k, op) == ListAnswer(k, op) /\ UNCHANGED walk

ChatMessagesCursor(k) == lreq[k].chatId # NoChat /\ ListCursor(k)
ChatMessagesFind(k) == lreq[k].chatId # NoChat /\ ListFind(k, "chat_messages")

\* a millisecond passes on the database clock
Tick ==
  /\ clock < MaxClock
  /\ clock' = clock + 1
  /\ UNCHANGED <<last, body, chats, chatSeq, creq, messages, msgSeq, lreq, sreq, xreq>>
  /\ FrameChat

\* get-or-create calls come one after the other here
NextChat ==
  \/ \E k \in OneAtATime, u \in ChatCallers, t \in ChatTargets : GetOrCreateStart(k, u, t)
  \/ \E k \in OneAtATime : GetOrCreateCreate(k)

SpecChat == InitRoom /\ [][NextChat]_vars

\* two chats exist, as POST /get-or-create leaves them when alice asked
\* for o1 and o2 asked for alice
InitPage ==
  /\ podMembers = {PodMemberRow(p, PodOwner(p)) : p \in AllPods} \cup {PodMemberRow("p1", "alice")}
  /\ notifications = {}
  /\ notifSeq = 0
  /\ subscriptions = {}
  /\ subSeq = 0
  /\ ioUp = FALSE
  /\ emits = {}
  /\ jreq = [r \in ReqIds |-> IdleReq]
  /\ RoomInit
  /\ body = <<>>
  /\ chats = {NewChat(1, "alice", "o1"), NewChat(2, "o2", "alice")}
  /\ chatSeq = 2
  /\ creq = [k \in ChatSlots |-> IdleChat]
  /\ MsgInit
  /\ SocketInit
  /\ InboxInit
  /\ PitchInit

ChatIds == {1, 2}
Cursors == {NoMessage} \cup MessageIds
Senders == {"alice", "o1"}
Listers == {"o1"}

\* messages are sent while pages are fetched
NextPage ==
  \/ \E k \in SendSlots, u \in Senders, c \in ChatIds : SendStart(k, u, c)
  \/ \E k \in SendSlots : SendCreate(k)
  \/ \E k \in ListSlots, u \in Listers, c \in ChatIds, limit \in Limits, b \in Cursors :
       ChatMessagesStart(k, u, c, limit, b)
  \/ \E k \in ListSlots : ChatMessagesCursor(k)
  \/ \E k \in ListSlots : ChatMessagesFind(k)
  \/ Tick

SpecPage == InitPage /\ [][NextPage]_vars

\* messages are sent and deleted between the pages of one chat
NextCursor ==
  \/ \E k \in SendSlots, u \in Senders : SendStart(k, u, 1)
  \/ \E k \in SendSlots : SendCreate(k)
  \/ \E k \in DeleteSlots, u \in Senders, id \in MessageIds : DeleteStart(k, u, id)
  \/ \E k \in DeleteSlots : DeleteDo(k)
  \/ \E k \in ListSlots, u \in Listers, limit \in Limits, b \in Cursors :
       ChatMessagesStart(k, u, 1, limit, b)
  \/ \E k \in ListSlots : ChatMessagesCursor(k)
  \/ \E k \in ListSlots : ChatMessagesFind(k)

SpecCursor == InitPage /\ [][NextCursor]_vars

\* ----------------------------------------------------------- claims

\* the chats whose participants are exactly the two users, in either order
PairChats(cs, u, t) == {c \in cs : ParticipantsOf(c) = {u, t}}

\* C16: a get-or-create call for two distinct users that is answered leaves
\* exactly one chat of that unordered pair and answers with its id, whichever
\* of the two asked; it creates a chat (201) only when the pair had none, and
\* it changes nothing and answers 200 when the pair had one
C16_GetOrCreateIdempotentSymmetric ==
  [][\A k \in ChatSlots, u \in ChatCallers, t \in ChatTargets :
       (\/ GetOrCreateStart(k, u, t) /\ creq'[k].pc = "idle" /\ last'.status = 200
        \/ GetOrCreateCreate(k) /\ creq[k].user = u /\ creq[k].target = t)
       => /\ Cardinality(PairChats(chats', u, t)) = 1
          /\ \A c \in PairChats(chats', u, t) : body' = <<c.id>>
          /\ PairChats(chats, u, t) # {} => chats' = chats /\ last'.status = 200
          /\ PairChats(chats, u, t) = {} => last'.status = 201]_vars

\* o1 asked for alice and was answered with the chat alice had created for o1
C16_ReverseOrderSameChat ==
  /\ chats = {NewChat(1, "alice", "o1")}
  /\ last = Answer("get_or_create", "o1", 200)
  /\ body = <<1>>

\* the creation timestamp of the message of that id
CreatedAtOf(id) == (CHOOSE m \in messages : m.id = id).createdAt

\* the messages of the request's room or chat that may appear on its page:
\* all of them without a cursor, the strictly older ones with one
EligibleFor(r) ==
  {m \in messages :
     /\ m.roomId = r.roomId
     /\ m.chatId = r.chatId
     /\ r.before # NoMessage => m.createdAt < CreatedAtOf(r.before)}

\* pg lists, oldest first, as many of the newest messages of E as the limit allows
IsNewestPage(pg, E, limit) ==
  /\ Len(pg) = IF limit < Cardinality(E) THEN limit ELSE Cardinality(E)
  /\ \A i \in 1..Len(pg) : \E m \in E : m.id = pg[i]
  /\ \A i, j \in 1..Len(pg) :
       i < j => pg[i] # pg[j] /\ CreatedAtOf(pg[i]) <= CreatedAtOf(pg[j])
  /\ \A m \in E : (\A i \in 1..Len(pg) : pg[i] # m.id)
                    => \A i \in 1..Len(pg) : m.createdAt <= CreatedAtOf(pg[i])

\* C17: a list call without cursor, or whose cursor named a message, is
\* answered 200 with the limit newest eligible messages of its room or chat
\* (all of them when they are fewer), oldest first by creation timestamp;
\* with a cursor only messages strictly older than the cursor message count
C17_PageIsNewestEligibleAscending ==
  [][\A k \in ListSlots :
       (/\ lreq[k].pc = "find"
        /\ lreq'[k].pc = "idle"
        /\ lreq[k].before = NoMessage \/ lreq[k].beforeAt # NoTime)
       => /\ last'.status = 200
          /\ IsNewestPage(body', EligibleFor(lreq[k]), lreq[k].limit)]_vars

\* M1, M2, M3 were sent to the chat one millisecond apart; a page of two
\* before M3 is [M1, M2]
C17_PageBeforeM3 ==
  /\ messages = {NewMessage(id, NoRoom, 1, "alice", id - 1) : id \in 1..3}
  /\ last = Answer("chat_messages", "o1", 200)
  /\ body = <<1, 2>>

\* the messages of the chat strictly older than message m
WindowOf(msgs, chatId, m) ==
  {x \in msgs : x.chatId = chatId /\ x.roomId = NoRoom /\ x.createdAt < m.createdAt}

C19_MissingMessageNotFound ==
  [][/\ \A k \in ListSlots :
          (/\ lreq[k].pc = "cursor"
           /\ lreq'[k] # lreq[k]
           /\ MessagesById(lreq[k].before) = {})
          => /\ lreq'[k].pc = "idle"
             /\ last' = Answer("chat_messages", lreq[k].caller, 404)
     /\ \A k \in DeleteSlots, u \in Senders, id \in MessageIds :
          (DeleteStart(k, u, id) /\ MessagesById(id) = {})
          => last' = Answer("delete", u, 404)]_vars

\* ======================================================================
\* Room messages: the socket layer's room events and GET /:roomId/messages
\* ======================================================================

SocketUsers == {"o1", "alice"}

\* who may read and write a room: the pod's owner; for a PUBLIC room any
\* member of the pod, for a PRIVATE room the members of the room
CanAccessRoom(u, room) ==
  \/ PodOwner(RoomPod(room)) = u
  \/ RoomPrivacy(room) = "PUBLIC" /\ IsPodMember(RoomPod(room), u)
  \/ RoomPrivacy(room) = "PRIVATE" /\ IsRoomMember(room, u)

ErrorEvent(u, room, on) == [to |-> u, roomId |-> room, on |-> on]

\* the 'new message' events of one broadcast: one for each user of the group
Broadcast(room, id) == {[to |-> v, msgId |-> id] : v \in groups[room]}

FrameSocket == UNCHANGED <<notifyVars, podMembers, roomVars, chatVars, lreq, sreq, xreq, clock, inboxVars, walk, pitchVars>>

\* 'join room': the caller is let into the room's group, or gets an error event
JoinRoomGroup(u, room) ==
  /\ u \notin groups[room]
  /\ IF CanAccessRoom(u, room)
       THEN /\ groups' = [groups EXCEPT ![room] = @ \cup {u}]
            /\ UNCHANGED errorEvents
       ELSE /\ errorEvents' = errorEvents \cup {ErrorEvent(u, room, "join")}
            /\ UNCHANGED groups
  /\ UNCHANGED <<delivered, messages, msgSeq>>
  /\ FrameSocket

\* 'leave room': unconditional
LeaveRoomGroup(u, room) ==
  /\ u \in groups[room]
  /\ groups' = [groups EXCEPT ![room] = @ \ {u}]
  /\ UNCHANGED <<delivered, errorEvents, messages, msgSeq>>
  /\ FrameSocket

\* 'send message': authorization is checked again, the message is stored,
\* then broadcast to the room's group; a caller not let in gets an error event
SendRoomMessage(u, room) ==
  /\ msgSeq < MaxMessages
  /\ IF CanAccessRoom(u, room)
       THEN /\ messages' = messages \cup {NewMessage(msgSeq + 1, room, NoChat, u, clock)}
            /\ msgSeq' = msgSeq + 1
            /\ delivered' = Broadcast(room, msgSeq + 1)
            /\ UNCHANGED errorEvents
       ELSE /\ errorEvents' = errorEvents \cup {ErrorEvent(u, room, "send")}
            /\ UNCHANGED <<messages, msgSeq, delivered>>
  /\ UNCHANGED groups
  /\ FrameSocket

\* B asks to join the PRIVATE room, A decides, both use the room's socket events
NextScenario ==
  \/ \E k \in OneAtATime, u \in Requesters : RequestJoinStart(k, u, "priv")
  \/ \E k \in OneAtATime : RequestJoinFindRequest(k)
  \/ \E k \in OneAtATime : RequestJoinResubmit(k)
  \/ \E k \in OneAtATime : RequestJoinCreate(k)
  \/ \E k \in OneAtATime, st \in {"ACCEPTED", "REJECTED"} : DecideStart(k, "o1", "priv", 1, st)
  \/ \E k \in OneAtATime : DecideUpdate(k)
  \/ \E k \in OneAtATime : DecideFindMember(k)
  \/ \E k \in OneAtATime : DecideCreateMember(k)
  \/ \E u \in SocketUsers : JoinRoomGroup(u, "priv")
  \/ \E u \in SocketUsers : LeaveRoomGroup(u, "priv")
  \/ \E u \in SocketUsers : SendRoomMessage(u, "priv")

SpecScenario == InitRoom /\ [][NextScenario]_vars

\* C15: in the PRIVATE room a send by a user who is neither a member of
\* the room nor the pod's owner stores nothing and answers the sender with
\* an error event; once the request of that user is ACCEPTED and the decision
\* has ended, the user is a member of the room; a send by a member stores the
\* message and broadcasts it to every user in the room's group at that moment
C15_RefusedThenAcceptedThenBroadcast ==
  /\ [][\A u \in SocketUsers :
          SendRoomMessage(u, "priv")
          => IF IsRoomMember("priv", u) \/ PodOwner(RoomPod("priv")) = u
               THEN /\ messages' = messages \cup
                         {NewMessage(msgSeq + 1, "priv", NoChat, u, clock)}
                    /\ delivered' = {[to |-> v, msgId |-> msgSeq + 1] : v \in groups["priv"]}
                    /\ errorEvents' = errorEvents
               ELSE /\ messages' = messages
                    /\ delivered' = delivered
                    /\ ErrorEvent(u, "priv", "send") \in errorEvents']_vars
  /\ [](\A u \in Requesters :
          (StatusOf("priv", u) = "ACCEPTED" /\ \A k \in DecideSlots : dreq[k].pc = "idle")
          => IsRoomMember("priv", u))

\* alice was refused on a send, her request was accepted, and her message
\* has reached o1, who is in the room's group
C15_MessageReachedOwnerAfterAccept ==
  /\ ErrorEvent("alice", "priv", "send") \in errorEvents
  /\ StatusOf("priv", "alice") = "ACCEPTED"
  /\ IsRoomMember("priv", "alice")
  /\ \E m \in messages :
       /\ m.senderId = "alice"
       /\ m.roomId = "priv"
       /\ [to |-> "o1", msgId |-> m.id] \in delivered
       /\ [to |-> "alice", msgId |-> m.id] \in delivered

\* ----------------------------------------------- GET /:roomId/messages

NeedsNoRoomMember(room, u) == FALSE

\* if (room.privacy === 'PRIVATE' && !isOwner)
NeedsRoomMember(room, u) ==
  RoomPrivacy(room) = "PRIVATE" /\ PodOwner(RoomPod(room)) # u

\* the request arrives; room.findUnique, podMember.findUnique:
\* "You must be a member of this pod to view messages"
RoomMessagesStart(k, u, room, limit, before) ==
  LET isMember == IsPodMember(RoomPod(room), u)
      isOwner == PodOwner(RoomPod(room)) = u
      r == [pc |-> "roommember", caller |-> u, roomId |-> room, chatId |-> NoChat,
            limit |-> limit, before |-> before, beforeAt |-> NoTime]
  IN
  /\ lreq[k].pc = "idle"
  /\ IF ~isMember /\ ~isOwner
       THEN /\ last' = Answer("room_messages", u, 403)
            /\ body' = <<>>
            /\ UNCHANGED lreq
       ELSE /\ lreq' = [lreq EXCEPT ![k] = IF NeedsRoomMember(room, u) THEN r ELSE AfterAuth(r)]
            /\ UNCHANGED <<last, body>>
  /\ UNCHANGED <<chats, chatSeq, creq, messages, msgSeq, clock, sreq, xreq>>
  /\ FrameChat

\* roomMember.findUnique: "This is a private room. You need to be approved
\* by the pod owner to access messages."
RoomMessagesFindMember(k) ==
  /\ lreq[k].pc = "roommember"
  /\ IF IsRoomMember(lreq[k].roomId, lreq[k].caller)
       THEN /\ lreq' = [lreq EXCEPT ![k] = AfterAuth(lreq[k])]
            /\ UNCHANGED <<last, body>>
       ELSE /\ last' = Answer("room_messages", lreq[k].caller, 403)
            /\ body' = <<>>
            /\ lreq' = [lreq EXCEPT ![k] = IdleList]
  /\ UNCHANGED <<chats, chatSeq, creq, messages, msgSeq, clock, sreq, xreq>>
  /\ FrameChat

RoomMessagesCursor(k) == lreq[k].roomId # NoRoom /\ ListCursor(k)
RoomMessagesFind(k) == lreq[k].roomId # NoRoom /\ ListFind(k, "room_messages")

ReadLimits == {2}
ReadCursors == {NoMessage, 1}

\* the rooms' messages are read while the owner writes to the rooms, adds
\* alice to the PRIVATE room and removes her, and alice leaves the pod
NextRead ==
  \/ \E k \in ListSlots, u \in Callers, room \in Rooms, limit \in ReadLimits, b \in ReadCursors :
       RoomMessagesStart(k, u, room, limit, b)
  \/ \E k \in ListSlots : RoomMessagesFindMember(k)
  \/ \E k \in ListSlots : RoomMessagesCursor(k)
  \/ \E k \in ListSlots : RoomMessagesFind(k)
  \/ \E u \in Targets : AddMember("o1", "priv", u)
  \/ \E u \in Targets : RemoveMember("o1", "priv", u)
  \/ \E u \in Targets : LeavePod(u, "p1")
  \/ \E room \in Rooms : SendRoomMessage("o1", room)

SpecRead == InitRoom /\ [][NextRead]_vars

\* C20: a call for a room's messages goes on to fetch them only when, at
\* the step that checks, its caller is a member or the owner of the pod for a
\* PUBLIC room, a member of the room or the pod's owner for a PRIVATE room;
\* a call that is not let through ends with 403 and no messages, and only a
\* call that was let through is answered 200
C20_RoomMessagesOnlyToAuthorized ==
  [][\A k \in ListSlots :
       LET r == lreq[k]
           r2 == lreq'[k]
       IN
       /\ (r.pc \in {"idle", "roommember"} /\ r2.pc \in {"cursor", "find"} /\ r2.roomId # NoRoom)
          => IF RoomPrivacy(r2.roomId) = "PUBLIC"
               THEN \/ IsPodMember(RoomPod(r2.roomId), r2.caller)
                    \/ PodOwner(RoomPod(r2.roomId)) = r2.caller
               ELSE \/ PodOwner(RoomPod(r2.roomId)) = r2.caller
                    \/ IsRoomMember(r2.roomId, r2.caller)
       /\ (r.pc = "roommember" /\ r2.pc = "idle")
          => last' = Answer("room_messages", r.caller, 403) /\ body' = <<>>
       /\ \A u \in Callers, room \in Rooms, limit \in ReadLimits, b \in ReadCursors :
            (RoomMessagesStart(k, u, room, limit, b) /\ r2.pc = "idle")
            => last' = Answer("room_messages", u, 403) /\ body' = <<>>
       /\ (/\ last'.op = "room_messages"
           /\ last'.status = 200
           /\ <<last, body>>' # <<last, body>>)
          => r.pc = "find" /\ r.roomId # NoRoom]_vars

\* alice, a member of the pod who is not a member of the PRIVATE room, asked
\* for the messages the room holds and was refused
C20_PodMemberRefusedPrivateRoom ==
  /\ last = Answer("room_messages", "alice", 403)
  /\ body = <<>>
  /\ IsPodMember("p1", "alice")
  /\ ~IsRoomMember("priv", "alice")
  /\ \E m \in messages : m.roomId = "priv"

\* ======================================================================
\* Notification routes: mark read, mark all read, delete
\* ======================================================================

FrameInbox ==
  UNCHANGED <<podMembers, notifSeq, subscriptions, subSeq, ioUp, emits, jreq,
              roomMembers, joinRequests, reqSeq, rjreq, dreq,
              body, chats, chatSeq, creq, msgVars, socketVars, walk, pitchVars>>

\* what the lookup of both routes answers: 404 "Notification not found",
\* 403 for a row of someone else, 0 to go on
InboxCheck(u, id) ==
  IF NotificationsById(id) = {} THEN 404
  ELSE IF \E n \in NotificationsById(id) : ~OwnsNotification(n, u) THEN 403
  ELSE 0

\* PATCH /:notificationId/read: the request arrives; notification.findUnique
MarkReadStart(k, u, id) ==
  /\ markreq[k].pc = "idle"
  /\ IF InboxCheck(u, id) # 0
       THEN /\ last' = Answer("mark_read", u, InboxCheck(u, id))
            /\ UNCHANGED markreq
       ELSE /\ markreq' = [markreq EXCEPT ![k] = [pc |-> "update", user |-> u, id |-> id]]
            /\ UNCHANGED last
  /\ UNCHANGED <<notifications, delreq>>
  /\ FrameInbox

\* notification.update; a row deleted meanwhile makes it throw: 500
MarkReadUpdate(k) ==
  /\ markreq[k].pc = "update"
  /\ notifications' = MarkRead(notifications, markreq[k].id)
  /\ last' = Answer("mark_read", markreq[k].user,
                    IF NotificationsById(markreq[k].id) = {} THEN 500 ELSE 200)
  /\ markreq' = [markreq EXCEPT ![k] = IdleInbox]
  /\ UNCHANGED delreq
  /\ FrameInbox

\* POST /mark-all-read: notification.updateMany
MarkAllRead(u) ==
  /\ notifications' = MarkAllOf(notifications, u)
  /\ last' = Answer("mark_all_read", u, 200)
  /\ UNCHANGED <<markreq, delreq>>
  /\ FrameInbox

\* DELETE /:notificationId: the request arrives; notification.findUnique
DeleteNotificationStart(k, u, id) ==
  /\ delreq[k].pc = "idle"
  /\ IF InboxCheck(u, id) # 0
       THEN /\ last' = Answer("delete_notification", u, InboxCheck(u, id))
            /\ UNCHANGED delreq
       ELSE /\ delreq' = [delreq EXCEPT ![k] = [pc |-> "delete", user |-> u, id |-> id]]
            /\ UNCHANGED last
  /\ UNCHANGED <<notifications, markreq>>
  /\ FrameInbox

\* notification.delete; a row that is gone by now makes it throw: 500
DeleteNotificationDo(k) ==
  /\ delreq[k].pc = "delete"
  /\ notifications' = {n \in notifications : n.id # delreq[k].id}
  /\ last' = Answer("delete_notification", delreq[k].user,
                    IF NotificationsById(delreq[k].id) = {} THEN 500 ELSE 200)
  /\ delreq' = [delreq EXCEPT ![k] = IdleInbox]
  /\ UNCHANGED markreq
  /\ FrameInbox

\* the pods exist with their owners; nobody else has joined
InitInbox ==
  /\ podMembers = {PodMemberRow(p, PodOwner(p)) : p \in AllPods}
  /\ notifications = {}
  /\ notifSeq = 0
  /\ subscriptions = {}
  /\ subSeq = 0
  /\ ioUp = FALSE
  /\ emits = {}
  /\ jreq = [r \in ReqIds |-> IdleReq]
  /\ RoomInit
  /\ ChatInit
  /\ MsgInit
  /\ SocketInit
  /\ InboxInit
  /\ PitchInit

NotificationIds == 1..MaxNotifs

\* alice joins the two pods, which notifies their owners; the owners and
\* alice call the notification routes
NextInbox ==
  \/ \E r \in OneAtATime, p \in AllPods : JoinStart(r, "alice", p)
  \/ \E r \in OneAtATime : JoinCreateMember(r)
  \/ \E r \in OneAtATime : HelperCreate(r)
  \/ \E r \in OneAtATime : PushList(r)
  \/ \E k \in InboxSlots, u \in Callers, id \in NotificationIds : MarkReadStart(k, u, id)
  \/ \E k \in InboxSlots : MarkReadUpdate(k)
  \/ \E u \in Callers : MarkAllRead(u)
  \/ \E k \in InboxSlots, u \in Callers, id \in NotificationIds : DeleteNotificationStart(k, u, id)
  \/ \E k \in InboxSlots : DeleteNotificationDo(k)

SpecInbox == InitInbox /\ [][NextInbox]_vars

\* the user whose call of a notification route takes this step, if any
InboxActor(u) ==
  \/ \E k \in InboxSlots : markreq[k].pc = "update" /\ markreq'[k].pc = "idle" /\ markreq[k].user = u
  \/ \E k \in InboxSlots : delreq[k].pc = "delete" /\ delreq'[k].pc = "idle" /\ delreq[k].user = u
  \/ MarkAllRead(u)

\* C21: a notification is removed, or has its isRead flag changed, only by
\* a step of a mark-read, mark-all-read or delete call made by the user the
\* notification belongs to; a call about a row of someone else is answered 403
C21_OnlyOwnerTouchesNotification ==
  [][/\ \A n \in notifications :
          (n \notin notifications') => InboxActor(n.userId)
     /\ \A k \in InboxSlots, u \in Callers, id \in NotificationIds :
          /\ (MarkReadStart(k, u, id) /\ \E n \in NotificationsById(id) : n.userId # u)
             => last' = Answer("mark_read", u, 403) /\ markreq' = markreq
          /\ (DeleteNotificationStart(k, u, id) /\ \E n \in NotificationsById(id) : n.userId # u)
             => last' = Answer("delete_notification", u, 403) /\ delreq' = delreq]_vars

\* o2 tried to delete the notification of o1, who has one unread
\* notification, and was refused
C21_OtherUserRefused ==
  /\ last = Answer("delete_notification", "o2", 403)
  /\ \E n \in notifications : n.userId = "o1" /\ ~n.isRead
  /\ \E n \in notifications : n.userId = "o2"

\* C22: no PodMember row has both isCoOwner and isTeamMember set
C22_CoOwnerAndTeamMemberExclusive ==
  \A m \in podMembers : ~(m.isCoOwner /\ m.isTeamMember)

RaceUsers == {"alice", "o1"}

NextChatRace ==
  \/ \E k \in ChatSlots, u \in RaceUsers, t \in RaceUsers : GetOrCreateStart(k, u, t)
  \/ \E k \in ChatSlots : GetOrCreateCreate(k)
  \/ \E k \in SendSlots, u \in RaceUsers, c \in ChatIds : SendStart(k, u, c)
  \/ \E k \in SendSlots : SendCreate(k)

SpecChatRace == InitRoom /\ [][NextChatRace]_vars

\* C24: no two distinct chats have the same two participants
C24_NoDuplicateChats ==
  \A a, b \in chats : ParticipantsOf(a) = ParticipantsOf(b) => a.id = b.id

\* C25: whenever the join request of a room and user is ACCEPTED, a
\* RoomMember row of that room and user exists
C25_AcceptedImpliesMember ==
  \A q \in joinRequests : q.status = "ACCEPTED" => IsRoomMember(q.roomId, q.userId)

\* C26: a join-request call for a PRIVATE room by a member of the pod who is
\* not a member of the room and has no PENDING request goes on to create a
\* request or to re-open the one it found
C26_NonMemberCanReenter ==
  [][\A k \in JoinSlots :
       LET rq == rjreq[k] IN
       (/\ rq.pc = "find_request"
        /\ rjreq'[k] # rq
        /\ IsPodMember(RoomPod(rq.roomId), rq.user)
        /\ ~IsRoomMember(rq.roomId, rq.user)
        /\ StatusOf(rq.roomId, rq.user) # "PENDING")
       => rjreq'[k].pc \in {"create", "resubmit"}]_vars

\* ======================================================================
\* A client walks the history of chat 1 backwards, page by page
\* ======================================================================

\* GET /1/messages?limit=..: the first call of a walk carries no cursor, a
\* following call carries the oldest message of the page before as `before`
WalkCall(k, limit) ==
  /\ walk.st \in {"idle", "next"}
  /\ walk.st = "next" => limit = walk.limit
  /\ ChatMessagesCall(k, "o1", 1, limit, walk.cursor)
  /\ walk' = [walk EXCEPT !.st = "waiting", !.limit = limit,
                          !.startSeq = IF walk.st = "idle" THEN msgSeq ELSE @]

\* the answer arrives: an empty page ends the walk, another page is kept
\* and its first message, the oldest, is the next cursor
WalkReceive(k) ==
  /\ walk.st = "waiting"
  /\ lreq[k].chatId # NoChat
  /\ ListAnswer(k, "chat_messages")
  /\ walk' = IF body' = <<>>
               THEN [walk EXCEPT !.st = "done"]
               ELSE [walk EXCEPT !.st = "next", !.seen = body' \o @, !.cursor = body'[1]]

NextWalk ==
  \/ \E k \in SendSlots, u \in Senders : SendStart(k, u, 1)
  \/ \E k \in SendSlots : SendCreate(k)
  \/ Tick
  \/ \E k \in ListSlots, limit \in Limits : WalkCall(k, limit)
  \/ \E k \in ListSlots : ChatMessagesCursor(k)
  \/ \E k \in ListSlots : WalkReceive(k)

SpecWalk == InitPage /\ [][NextWalk]_vars

\* C27: a walk that has ended, with no message created since it began, has
\* got every message of the chat on exactly one of its pages
C27_WalkYieldsEachMessageOnce ==
  (walk.st = "done" /\ msgSeq = walk.startSeq)
  => /\ {walk.seen[i] : i \in 1..Len(walk.seen)} = {m.id : m \in {x \in messages : x.chatId = 1}}
     /\ \A i, j \in 1..Len(walk.seen) : i # j => walk.seen[i] # walk.seen[j]

\* the positions of a join request past its podMember.create
AfterMemberWrite == {"notify", "push_list", "pushing"}

\* C28: a join request that is answered with an error has created no
\* PodMember row: once its row is written, the request is not answered
\* with an error
C28_ErrorAnswerMeansNoMemberRow ==
  [][\A r \in ReqIds :
       (jreq[r].pc \in AfterMemberWrite /\ jreq'[r].pc = "done")
       => jreq'[r].status < 400]_vars

\* C30: when the owner replaces the co-owner list of a pod through pod update, every
\* co-owner left off the list keeps a PodMember row with isCoOwner cleared (what
\* demote does to it), and the rows of the users who are neither dropped nor listed
\* stay as they were
DroppedCoOwners(p, names) ==
  {m \in podMembers : m.podId = p /\ m.isCoOwner /\ m.userId \notin names}
C30_DroppedCoOwnerKeepsRow ==
  [][\A c \in Callers, p \in Pods, names \in SUBSET Targets :
       (UpdatePod(c, p, TRUE, names) /\ PodOwner(p) = c)
       => /\ \A m \in DroppedCoOwners(p, names) : [m EXCEPT !.isCoOwner = FALSE] \in podMembers'
          /\ \A m \in podMembers \ DroppedCoOwners(p, names) :
               (m.podId # p \/ m.userId \notin names) => m \in podMembers']_vars

\* ======================================================================
\* Pitches and the two records of who co-owns a pod
\* ======================================================================

FramePitch ==
  UNCHANGED <<notifyVars, podMembers, roomMembers, joinRequests, reqSeq, rjreq, dreq,
              chatVars, msgVars, socketVars, inboxVars, walk>>

CoOwnerNames == {"alice", "ghost"}   \* body.username of POST /:podId/co-owners

\* POST /:podId/co-owners: connects the user to Pod.coOwners; no PodMember row
\* is read or written
AddCoOwner(c, p, username) ==
  LET code == IF ~HasPodOwnerRole(c) THEN 403
              ELSE IF ~OwnsPod(c, p) THEN 403
              ELSE IF username \notin ExistingUsers THEN 404
              ELSE IF InCoOwners(p, username) THEN 400
              ELSE 200
  IN
  /\ coOwners' = IF code = 200 THEN coOwners \cup {[podId |-> p, userId |-> username]}
                  ELSE coOwners
  /\ last' = Answer("add_co_owner", c, code)
  /\ UNCHANGED <<pitches, replies>>
  /\ FramePitch

\* DELETE /:podId/co-owners/:userId: disconnects an existing user, connected or not
RemoveCoOwner(c, p, u) ==
  LET code == IF ~HasPodOwnerRole(c) THEN 403
              ELSE IF ~OwnsPod(c, p) THEN 403
              ELSE 200
  IN
  /\ coOwners' = IF code = 200 THEN coOwners \ {[podId |-> p, userId |-> u]} ELSE coOwners
  /\ last' = Answer("remove_co_owner", c, code)
  /\ UNCHANGED <<pitches, replies>>
  /\ FramePitch

\* PATCH /:pitchId/status
UpdatePitchStatus(c, id, st) ==
  LET code == IF id \notin PitchIds THEN 404
              ELSE IF ~MayHandlePitch(c, pitches[id].podId) THEN 403
              ELSE 200
  IN
  /\ pitches' = IF code = 200 THEN [pitches EXCEPT ![id].status = st] ELSE pitches
  /\ last' = Answer("pitch_status", c, code)
  /\ UNCHANGED <<coOwners, replies>>
  /\ FramePitch

\* POST /:pitchId/replies: the reply row, then status REPLIED for a pitch that
\* was NEW or VIEWED
ReplyToPitch(c, id) ==
  LET code == IF id \notin PitchIds THEN 404
              ELSE IF ~MayHandlePitch(c, pitches[id].podId) THEN 403
              ELSE 201
  IN
  /\ Len(replies) < MaxReplies
  /\ replies' = IF code = 201 THEN Append(replies, [pitchId |-> id, authorId |-> c])
                 ELSE replies
  /\ pitches' = IF code = 201 /\ pitches[id].status \in {"NEW", "VIEWED"}
                 THEN [pitches EXCEPT ![id].status = "REPLIED"]
                 ELSE pitches
  /\ last' = Answer("pitch_reply", c, code)
  /\ UNCHANGED coOwners
  /\ FramePitch

NextPitch ==
  \/ \E c \in Callers, p \in Pods, u \in Targets : Promote(c, p, u)
  \/ \E c \in Callers, p \in Pods, u \in Targets : Demote(c, p, u)
  \/ \E c \in Callers, p \in Pods, given \in BOOLEAN, names \in SUBSET Targets :
       UpdatePod(c, p, given, names)
  \/ \E c \in Callers, p \in Pods, username \in CoOwnerNames : AddCoOwner(c, p, username)
  \/ \E c \in Callers, p \in Pods, u \in Targets : RemoveCoOwner(c, p, u)
  \/ \E c \in Callers, id \in PitchIds \cup {NoSuchPitch}, st \in PitchStatusInputs :
       UpdatePitchStatus(c, id, st)
  \/ \E c \in Callers, id \in PitchIds \cup {NoSuchPitch} : ReplyToPitch(c, id)

SpecPitch == InitRoom /\ [][NextPitch]_vars

\* C29: every operation open to co-owners (editing the pod, updating the status
\* of a pitch, replying to a pitch) lets a caller who is not the owner through
\* exactly when the caller's PodMember row of that pod has isCoOwner = true
C29_OneCoOwnerFact ==
  [][\A c \in Callers \ {PodOwner("p1")} :
       (\/ \E given \in BOOLEAN, names \in SUBSET Targets : UpdatePod(c, "p1", given, names)
        \/ \E st \in PitchStatusInputs : UpdatePitchStatus(c, 1, st)
        \/ ReplyToPitch(c, 1))
       => (last'.status # 403 <=> IsCoOwner("p1", c))]_vars

====
